---- MODULE Spec2Model ----
(***************************************************************************)
(* The document ingestion transform of milli                               *)
(* (milli/src/update/index_documents/transform.rs): read_documents         *)
(* (Ingest), output_from_sorter / write_final_sorter (Finalize) and their  *)
(* helpers, over an index whose persisted state is the field registry,     *)
(* the primary key, the documents table, the external ids map, the used    *)
(* ids bitmap and the field distribution.                                  *)
(***************************************************************************)
EXTENDS Integers, Sequences, FiniteSets, TLC

\* Total number of records the batch readers hand to one Transform.
MaxRecords == 2

\* Size of the internal document id space (u32 in the program).
DocIdSpace == 4

\* FieldId is a u16: the registry holds at most 2^16 names (ids 0..65535).
FieldIdLimit == 65536

\* Option::None of an id (FieldId, document id).
None == -1

\* Option::None of a name (names are non-empty).
NoName == << >>

(***************************************************************************)
(* Characters and strings.  A string is a sequence of one-character        *)
(* strings; Code is the byte of a character.                               *)
(***************************************************************************)
Code ==
    (" " :> 32) @@ ("-" :> 45) @@ ("." :> 46) @@ ("0" :> 48) @@ ("1" :> 49) @@
    ("7" :> 55) @@ ("D" :> 68) @@ ("I" :> 73) @@ ("U" :> 85) @@ ("_" :> 95) @@
    ("a" :> 97) @@ ("b" :> 98) @@ ("c" :> 99) @@ ("d" :> 100) @@ ("e" :> 101) @@
    ("i" :> 105) @@ ("q" :> 113) @@ ("t" :> 116) @@ ("u" :> 117) @@
    ("x" :> 120) @@ ("y" :> 121) @@ ("z" :> 122)

CharOf(code) == CHOOSE c \in DOMAIN Code : Code[c] = code

\* char::to_lowercase on the ASCII range.
LowerChar(c) == IF Code[c] >= 65 /\ Code[c] <= 90 THEN CharOf(Code[c] + 32) ELSE c

\* str::to_lowercase
ToLowercase(s) == [i \in 1..Len(s) |-> LowerChar(s[i])]

\* str::contains
Contains(s, pat) ==
    \E i \in 0..(Len(s) - Len(pat)) : \A j \in 1..Len(pat) : s[i + j] = pat[j]

\* char::is_whitespace
IsWhitespace(c) == Code[c] = 32

\* str::trim
Trim(s) ==
    LET keep == {i \in 1..Len(s) : ~IsWhitespace(s[i])}
    IN  IF keep = {} THEN << >>
        ELSE LET lo == CHOOSE i \in keep : \A j \in keep : i <= j
                 hi == CHOOSE i \in keep : \A j \in keep : j <= i
             IN  SubSeq(s, lo, hi)

\* Ord for byte strings: lexicographic order of the bytes (the order of the sorter keys).
RECURSIVE BytesLess(_, _)
BytesLess(a, b) ==
    IF b = << >> THEN FALSE
    ELSE IF a = << >> THEN TRUE
    ELSE IF Code[Head(a)] # Code[Head(b)] THEN Code[Head(a)] < Code[Head(b)]
    ELSE BytesLess(Tail(a), Tail(b))

\* The decimal digits of a natural number.
RECURSIVE Digits(_)
Digits(n) ==
    IF n < 10 THEN << CharOf(48 + n) >> ELSE Digits(n \div 10) \o << CharOf(48 + (n % 10)) >>

\* serde_json::Number::to_string for an integer.
NumberToString(n) == IF n < 0 THEN << "-" >> \o Digits(-n) ELSE Digits(n)

(***************************************************************************)
(* JSON values (serde_json::Value) as stored in a record's value bytes.    *)
(***************************************************************************)
JString(s) == [k |-> "string", s |-> s, n |-> 0, o |-> << >>]
JNumber(n) == [k |-> "number", s |-> << >>, n |-> n, o |-> << >>]
JNull == [k |-> "null", s |-> << >>, n |-> 0, o |-> << >>]
\* An object: its (key, value) entries in insertion order.
JObject(o) == [k |-> "object", s |-> << >>, n |-> 0, o |-> o]

\* const DEFAULT_PRIMARY_KEY_NAME
DEFAULT_PRIMARY_KEY_NAME == << "i", "d" >>

(***************************************************************************)
(* FieldsIdsMap: names <-> ids, dense from 0.  base names outside the      *)
(* modelled universe hold the ids 0..base-1, names[i] holds base+i-1.       *)
(***************************************************************************)
FimLen(m) == m.base + Len(m.names)

\* FieldsIdsMap::id
FimId(m, name) ==
    IF \E i \in 1..Len(m.names) : m.names[i] = name
    THEN m.base + (CHOOSE i \in 1..Len(m.names) : m.names[i] = name) - 1
    ELSE None

\* FieldsIdsMap::name (of an id held by a modelled name)
FimName(m, id) ==
    IF id >= m.base /\ id < FimLen(m) THEN m.names[id - m.base + 1] ELSE NoName

\* FieldsIdsMap::insert: the existing id, else the next free id, else None.
FimInsert(m, name) ==
    IF FimId(m, name) # None THEN [map |-> m, id |-> FimId(m, name)]
    ELSE IF FimLen(m) >= FieldIdLimit THEN [map |-> m, id |-> None]
    ELSE [map |-> [m EXCEPT !.names = Append(@, name)], id |-> FimLen(m)]

(***************************************************************************)
(* Sorting by key (itertools sorted_by_key, slice::sort_unstable_by on     *)
(* the first component of each pair).                                      *)
(***************************************************************************)
InsertByKey(sorted, e) ==
    LET k == Cardinality({i \in 1..Len(sorted) : sorted[i][1] <= e[1]})
    IN  SubSeq(sorted, 1, k) \o << e >> \o SubSeq(sorted, k + 1, Len(sorted))

RECURSIVE SortByKey(_)
SortByKey(s) ==
    IF s = << >> THEN << >>
    ELSE InsertByKey(SortByKey(SubSeq(s, 1, Len(s) - 1)), s[Len(s)])

(***************************************************************************)
(* Errors.  kind = "" is Ok.                                               *)
(***************************************************************************)
Err(kind) == [kind |-> kind, primary_key |-> NoName, document |-> << >>, document_id |-> JNull]
NoError == Err("")

(***************************************************************************)
(* create_fields_mapping: batch-local field id -> registry field id.       *)
(* batch_field_map is the batch index as its iterator yields it: a         *)
(* sequence of (local id, name) pairs in hash order.                       *)
(***************************************************************************)
RECURSIVE MapFields(_, _, _)
MapFields(m, fields, mapping) ==
    IF fields = << >> THEN [err |-> NoError, map |-> m, mapping |-> mapping]
    ELSE LET field == Head(fields)[1]
             name == Head(fields)[2]
         IN  IF FimId(m, name) # None
             THEN MapFields(m, Tail(fields), (field :> FimId(m, name)) @@ mapping)
             ELSE LET r == FimInsert(m, name)
                  IN  IF r.id = None
                      THEN [err |-> Err("AttributeLimitReached"), map |-> m, mapping |-> mapping]
                      ELSE MapFields(r.map, Tail(fields), (field :> r.id) @@ mapping)

\* A slip in lines 73-76: the ids are handed out but the names do not stay in the map.
create_fields_mapping_ForgetsNames(index_field_map, batch_field_map) == [MapFields(index_field_map, SortByKey(batch_field_map), << >>) EXCEPT !.map = index_field_map]

\* A slip in line 71: the fields are registered in the iteration order of the hash map.
create_fields_mapping_Unsorted(index_field_map, batch_field_map) == MapFields(index_field_map, batch_field_map, << >>)

create_fields_mapping(index_field_map, batch_field_map) ==
    MapFields(index_field_map, SortByKey(batch_field_map), << >>)

\* A slip in line 86: the fields are taken in the iteration order of the hash map.
find_primary_key_Unsorted(index) ==
    LET hits == {i \in 1..Len(index) :
                    Contains(ToLowercase(index[i][2]), DEFAULT_PRIMARY_KEY_NAME)}
    IN  IF hits = {} THEN NoName
        ELSE index[CHOOSE i \in hits : \A j \in hits : i <= j][2]

\* find_primary_key: the first name, in ascending local id, whose lowercase contains "id".
find_primary_key(index) ==
    LET sorted == SortByKey(index)
        hits == {i \in 1..Len(sorted) :
                    Contains(ToLowercase(sorted[i][2]), DEFAULT_PRIMARY_KEY_NAME)}
    IN  IF hits = {} THEN NoName
        ELSE sorted[CHOOSE i \in hits : \A j \in hits : i <= j][2]

\* A slip in lines 649-653: without a name to take, the call fails whatever
\* autogenerate_docids is.
compute_primary_key_pair_NeverDefault(primary_key, fields_ids_map, alternative_name, autogenerate_docids) ==
    IF primary_key # NoName
    THEN LET r == FimInsert(fields_ids_map, primary_key)
         IN  IF r.id = None
             THEN [err |-> Err("AttributeLimitReached"), id |-> None, name |-> NoName,
                   map |-> fields_ids_map]
             ELSE [err |-> NoError, id |-> r.id, name |-> primary_key, map |-> r.map]
    ELSE IF alternative_name = NoName
    THEN [err |-> Err("MissingPrimaryKey"), id |-> None, name |-> NoName,
          map |-> fields_ids_map]
    ELSE LET r == FimInsert(fields_ids_map, alternative_name)
         IN  IF r.id = None
             THEN [err |-> Err("AttributeLimitReached"), id |-> None, name |-> NoName,
                   map |-> fields_ids_map]
             ELSE [err |-> NoError, id |-> r.id, name |-> alternative_name, map |-> r.map]

\* A slip in line 642: the stored primary key is pushed as a new entry of the map.
compute_primary_key_pair_SecondEntry(primary_key, fields_ids_map, alternative_name, autogenerate_docids) ==
    IF primary_key # NoName
    THEN IF FimLen(fields_ids_map) >= FieldIdLimit
         THEN [err |-> Err("AttributeLimitReached"), id |-> None, name |-> NoName,
               map |-> fields_ids_map]
         ELSE [err |-> NoError, id |-> FimLen(fields_ids_map), name |-> primary_key,
               map |-> [fields_ids_map EXCEPT !.names = Append(@, primary_key)]]
    ELSE IF alternative_name = NoName /\ ~autogenerate_docids
    THEN [err |-> Err("MissingPrimaryKey"), id |-> None, name |-> NoName,
          map |-> fields_ids_map]
    ELSE LET name == IF alternative_name # NoName THEN alternative_name
                     ELSE DEFAULT_PRIMARY_KEY_NAME
             r == FimInsert(fields_ids_map, name)
         IN  IF r.id = None
             THEN [err |-> Err("AttributeLimitReached"), id |-> None, name |-> NoName,
                   map |-> fields_ids_map]
             ELSE [err |-> NoError, id |-> r.id, name |-> name, map |-> r.map]

\* A slip in lines 649-653: the default name is taken whatever autogenerate_docids is.
compute_primary_key_pair_AlwaysDefault(primary_key, fields_ids_map, alternative_name, autogenerate_docids) ==
    LET name == IF primary_key # NoName THEN primary_key
                ELSE IF alternative_name # NoName THEN alternative_name
                ELSE DEFAULT_PRIMARY_KEY_NAME
        r == FimInsert(fields_ids_map, name)
    IN  IF r.id = None
        THEN [err |-> Err("AttributeLimitReached"), id |-> None, name |-> NoName,
              map |-> fields_ids_map]
        ELSE [err |-> NoError, id |-> r.id, name |-> name, map |-> r.map]

\* compute_primary_key_pair
compute_primary_key_pair(primary_key, fields_ids_map, alternative_name, autogenerate_docids) ==
    IF primary_key # NoName
    THEN LET r == FimInsert(fields_ids_map, primary_key)
         IN  IF r.id = None
             THEN [err |-> Err("AttributeLimitReached"), id |-> None, name |-> NoName,
                   map |-> fields_ids_map]
             ELSE [err |-> NoError, id |-> r.id, name |-> primary_key, map |-> r.map]
    ELSE IF alternative_name = NoName /\ ~autogenerate_docids
    THEN [err |-> Err("MissingPrimaryKey"), id |-> None, name |-> NoName,
          map |-> fields_ids_map]
    ELSE LET name == IF alternative_name # NoName THEN alternative_name
                     ELSE DEFAULT_PRIMARY_KEY_NAME
             r == FimInsert(fields_ids_map, name)
         IN  IF r.id = None
             THEN [err |-> Err("AttributeLimitReached"), id |-> None, name |-> NoName,
                   map |-> fields_ids_map]
             ELSE [err |-> NoError, id |-> r.id, name |-> name, map |-> r.map]

\* The characters validate_document_id lets through: a-z A-Z 0-9 - _
IsIdChar(c) ==
    \/ Code[c] >= 97 /\ Code[c] <= 122
    \/ Code[c] >= 65 /\ Code[c] <= 90
    \/ Code[c] >= 48 /\ Code[c] <= 57
    \/ Code[c] = 45
    \/ Code[c] = 95

\* A slip in line 664: the id is checked as given, not trimmed.
validate_document_id_NoTrim(document_id) ==
    IF document_id # << >> /\ \A i \in 1..Len(document_id) : IsIdChar(document_id[i])
    THEN document_id ELSE NoName

\* validate_document_id: Some(trimmed) or None (NoName).
validate_document_id(document_id) ==
    LET id == Trim(document_id)
    IN  IF id # << >> /\ \A i \in 1..Len(id) : IsIdChar(id[i]) THEN id ELSE NoName

(***************************************************************************)
(* obkv records: sequences of (field id, value) pairs.  KvWriter::insert   *)
(* refuses a key that is not greater than the last one written.            *)
(***************************************************************************)
KvOrdered(fields) == \A i \in 1..(Len(fields) - 1) : fields[i][1] < fields[i + 1][1]

\* KvReader::get
KvGet(obkv, fid) ==
    IF \E i \in 1..Len(obkv) : obkv[i][1] = fid
    THEN (CHOOSE i \in 1..Len(obkv) : obkv[i][1] = fid)
    ELSE 0

KvKeys(obkv) == {obkv[i][1] : i \in 1..Len(obkv)}

\* merge_two_obkvs(base, update): the union of both records in ascending key
\* order, the update's value on a key both hold.
merge_two_obkvs(base, update) ==
    LET keep == SelectSeq(base, LAMBDA e : e[1] \notin KvKeys(update))
    IN  SortByKey(keep \o update)

\* keep_latest_obkv(key, obkvs)
keep_latest_obkv(obkvs) == obkvs[Len(obkvs)]

\* merge_obkvs(key, obkvs): left fold of merge_two_obkvs.
RECURSIVE merge_obkvs(_)
merge_obkvs(obkvs) ==
    IF Len(obkvs) = 1 THEN obkvs[1]
    ELSE merge_two_obkvs(merge_obkvs(SubSeq(obkvs, 1, Len(obkvs) - 1)), obkvs[Len(obkvs)])

\* A slip in lines 100-103: the two merge functions are swapped.
merge_function_Swapped(index_documents_method, obkvs) ==
    IF index_documents_method = "ReplaceDocuments" THEN merge_obkvs(obkvs)
    ELSE keep_latest_obkv(obkvs)

\* Transform::new: the merge function of the original sorter.
merge_function(index_documents_method, obkvs) ==
    IF index_documents_method = "ReplaceDocuments" THEN keep_latest_obkv(obkvs)
    ELSE merge_obkvs(obkvs)

(***************************************************************************)
(* grenad::Sorter: key -> the values inserted under it, in insertion order.*)
(***************************************************************************)
EmptySorter == << >>

\* A slip: a record inserted under a key the sorter holds goes in front of the others.
SorterInsert_InFront(sorter, key, value) ==
    IF key \in DOMAIN sorter THEN [sorter EXCEPT ![key] = << value >> \o @]
    ELSE (key :> << value >>) @@ sorter

SorterInsert(sorter, key, value) ==
    IF key \in DOMAIN sorter THEN [sorter EXCEPT ![key] = Append(@, value)]
    ELSE (key :> << value >>) @@ sorter

\* The keys of a sorter in ascending byte order.
RECURSIVE SortedKeys(_)
SortedKeys(keys) ==
    IF keys = {} THEN << >>
    ELSE LET least == CHOOSE a \in keys : \A b \in keys \ {a} : BytesLess(a, b)
         IN  << least >> \o SortedKeys(keys \ {least})

(***************************************************************************)
(* Transform::read_documents (Ingest).                                     *)
(* A batch is [index |-> the batch index as iterated, docs |-> the         *)
(* records]; a record is a sequence of (local field id, value) pairs.      *)
(***************************************************************************)
\* DocumentsBatchIndex::name
BatchName(index, lid) ==
    IF \E i \in 1..Len(index) : index[i][1] = lid
    THEN index[CHOOSE i \in 1..Len(index) : index[i][1] = lid][2]
    ELSE NoName

\* A slip in lines 201-209: the document is sent back without its fields.
DocumentJson_Empty(addition_index, document) == << >>

\* The JSON view of a record carried by MissingDocumentId (lines 201-209).
DocumentJson(addition_index, document) ==
    LET named == SelectSeq(document, LAMBDA e : BatchName(addition_index, e[1]) # NoName)
    IN  [i \in 1..Len(named) |-> << BatchName(addition_index, named[i][1]), named[i][2] >>]

\* The external id of a primary key value (lines 177-195): [err, id].
ExternalIdOf(value) ==
    IF value.k = "string"
    THEN LET s == validate_document_id(value.s)
         IN  IF s = NoName
             THEN [err |-> [Err("InvalidDocumentId") EXCEPT !.document_id = value], id |-> NoName]
             ELSE [err |-> NoError, id |-> s]
    ELSE IF value.k = "number"
    THEN [err |-> NoError, id |-> NumberToString(value.n)]
    ELSE [err |-> [Err("InvalidDocumentId") EXCEPT !.document_id = value], id |-> NoName]

\* A slip in line 221: the generated id keys the record but is not pushed into it.
ReadDocument_NoInjection(document, mapping, addition_index, primary_key_id, primary_key_name, autogenerate_docids, uuid) ==
    LET field_buffer_cache ==
            [i \in 1..Len(document) |-> << mapping[document[i][1]], document[i][2] >>]
        found == {i \in 1..Len(document) : field_buffer_cache[i][1] = primary_key_id}
        first == CHOOSE i \in found : \A j \in found : i <= j
        external == IF found # {} THEN ExternalIdOf(field_buffer_cache[first][2])
                    ELSE IF ~autogenerate_docids
                    THEN [err |-> [Err("MissingDocumentId") EXCEPT
                                      !.primary_key = primary_key_name,
                                      !.document = DocumentJson(addition_index, document)],
                          id |-> NoName]
                    ELSE [err |-> NoError, id |-> uuid]
        sorted == SortByKey(field_buffer_cache)
    IN  IF external.err.kind # "" THEN [err |-> external.err, key |-> NoName, obkv |-> << >>]
        ELSE IF ~KvOrdered(sorted) THEN [err |-> Err("Io"), key |-> NoName, obkv |-> << >>]
        ELSE [err |-> NoError, key |-> external.id, obkv |-> sorted]

\* One iteration of the loop of read_documents (lines 155-248):
\* [err, key, obkv], the entry inserted into the original sorter.
ReadDocument(document, mapping, addition_index, primary_key_id, primary_key_name, autogenerate_docids, uuid) ==
    LET field_buffer_cache ==
            [i \in 1..Len(document) |-> << mapping[document[i][1]], document[i][2] >>]
        found == {i \in 1..Len(document) : field_buffer_cache[i][1] = primary_key_id}
        first == CHOOSE i \in found : \A j \in found : i <= j
        external == IF found # {} THEN ExternalIdOf(field_buffer_cache[first][2])
                    ELSE IF ~autogenerate_docids
                    THEN [err |-> [Err("MissingDocumentId") EXCEPT
                                      !.primary_key = primary_key_name,
                                      !.document = DocumentJson(addition_index, document)],
                          id |-> NoName]
                    ELSE [err |-> NoError, id |-> uuid]
        fields == IF found # {} THEN field_buffer_cache
                  ELSE Append(field_buffer_cache, << primary_key_id, JString(uuid) >>)
        sorted == SortByKey(fields)
    IN  IF external.err.kind # "" THEN [err |-> external.err, key |-> NoName, obkv |-> << >>]
        ELSE IF ~KvOrdered(sorted) THEN [err |-> Err("Io"), key |-> NoName, obkv |-> << >>]
        ELSE [err |-> NoError, key |-> external.id, obkv |-> sorted]

\* The loop of read_documents from record i on: [err, sorter, documents_count].
RECURSIVE ReadLoop(_, _, _, _, _, _, _, _)
ReadLoop(i, sorter, batch, uuids, mapping, primary_key_id, primary_key_name, autogenerate_docids) ==
    IF i > Len(batch.docs)
    THEN [err |-> NoError, sorter |-> sorter, documents_count |-> i - 1]
    ELSE LET r == ReadDocument(batch.docs[i], mapping, batch.index, primary_key_id,
                               primary_key_name, autogenerate_docids, uuids[i])
         IN  IF r.err.kind # ""
             THEN [err |-> r.err, sorter |-> sorter, documents_count |-> i - 1]
             ELSE ReadLoop(i + 1, SorterInsert(sorter, r.key, r.obkv), batch, uuids, mapping,
                           primary_key_id, primary_key_name, autogenerate_docids)

\* read_documents: [err, sorter, fields_ids_map, primary_key_name, primary_key_id,
\* documents_count]; the map and the name are what lines 254-255 persist on success.
read_documents(sorter, stored_fields_ids_map, stored_primary_key, autogenerate_docids, batch, uuids) ==
    LET m == create_fields_mapping(stored_fields_ids_map, batch.index)
        alternative_name == IF stored_primary_key # NoName THEN stored_primary_key
                            ELSE find_primary_key(batch.index)
        pk == compute_primary_key_pair(stored_primary_key, m.map, alternative_name,
                                       autogenerate_docids)
        loop == ReadLoop(1, sorter, batch, uuids, m.mapping, pk.id, pk.name,
                         autogenerate_docids)
    IN  IF m.err.kind # ""
        THEN [err |-> m.err, sorter |-> sorter, fields_ids_map |-> stored_fields_ids_map,
              primary_key_name |-> NoName, primary_key_id |-> None, documents_count |-> 0]
        ELSE IF pk.err.kind # ""
        THEN [err |-> pk.err, sorter |-> sorter, fields_ids_map |-> stored_fields_ids_map,
              primary_key_name |-> NoName, primary_key_id |-> None, documents_count |-> 0]
        ELSE [err |-> loop.err, sorter |-> loop.sorter, fields_ids_map |-> pk.map,
              primary_key_name |-> pk.name, primary_key_id |-> pk.id,
              documents_count |-> loop.documents_count]

(***************************************************************************)
(* Finalize: output_from_sorter, write_final_sorter and                    *)
(* add_and_merge_original_document.                                        *)
(***************************************************************************)
\* A slip in lines 394-395: with no id left the allocator starts again at 0.
AvailableNext_StartsAgain(used) ==
    LET free == (0..(DocIdSpace - 1)) \ used
    IN  IF free = {} THEN 0 ELSE CHOOSE d \in free : \A e \in free : d <= e

\* AvailableDocumentsIds::next over the ids not in `used`: the smallest one, or None.
AvailableNext(used) ==
    LET free == (0..(DocIdSpace - 1)) \ used
    IN  IF free = {} THEN None ELSE CHOOSE d \in free : \A e \in free : d <= e

\* FieldDistribution: name -> count, for the names it holds.
\* A slip in lines 523-526: a count that reaches zero stays in the map.
DistributionDecrement_KeepsZero(field_distribution, field_name) ==
    IF field_name \notin DOMAIN field_distribution THEN field_distribution
    ELSE [field_distribution EXCEPT ![field_name] = IF @ > 0 THEN @ - 1 ELSE 0]

\* A slip in lines 519-528: the fields of the stored record are not counted out.
DistributionDecrement_Skipped(field_distribution, field_name) == field_distribution

\* Lines 519-528: one field of the stored record is counted out.
DistributionDecrement(field_distribution, field_name) ==
    IF field_name \notin DOMAIN field_distribution THEN field_distribution
    ELSE IF field_distribution[field_name] - 1 <= 0
    THEN [n \in (DOMAIN field_distribution) \ {field_name} |-> field_distribution[n]]
    ELSE [field_distribution EXCEPT ![field_name] = @ - 1]

\* Lines 547-550: one field of the emitted record is counted in.
DistributionIncrement(field_distribution, field_name) ==
    IF field_name \in DOMAIN field_distribution
    THEN [field_distribution EXCEPT ![field_name] = @ + 1]
    ELSE (field_name :> 1) @@ field_distribution

RECURSIVE DecrementAll(_, _, _)
DecrementAll(field_distribution, fields_ids_map, obkv) ==
    IF obkv = << >> THEN field_distribution
    ELSE DecrementAll(
             DistributionDecrement(field_distribution, FimName(fields_ids_map, Head(obkv)[1])),
             fields_ids_map, Tail(obkv))

RECURSIVE IncrementAll(_, _, _)
IncrementAll(field_distribution, fields_ids_map, obkv) ==
    IF obkv = << >> THEN field_distribution
    ELSE IncrementAll(
             DistributionIncrement(field_distribution, FimName(fields_ids_map, Head(obkv)[1])),
             fields_ids_map, Tail(obkv))

\* A slip in lines 530-539: Update mode emits the batch's record alone.
MergeWithStored_DropsStored(index_documents_method, base_obkv, document) == document

\* A slip in lines 530-539: the stored record wins the merge.
MergeWithStored_BaseWins(index_documents_method, base_obkv, document) ==
    IF index_documents_method = "ReplaceDocuments" THEN document
    ELSE merge_two_obkvs(document, base_obkv)

\* Lines 530-539: the record emitted for an external id the index already knows.
MergeWithStored(index_documents_method, base_obkv, document) ==
    IF index_documents_method = "ReplaceDocuments" THEN document
    ELSE merge_two_obkvs(base_obkv, document)

\* fields_ids_map.name(field_id).unwrap() (lines 426, 520, 548) panics on a field id
\* the map does not hold.
AllNamed(fields_ids_map, obkv) ==
    \A i \in 1..Len(obkv) : FimName(fields_ids_map, obkv[i][1]) # NoName

\* A slip in lines 509 and 541-542: a replaced id is also marked new.
MarkIds_AlsoNew(acc, updated, external_id, docid) ==
    [acc EXCEPT !.replaced_documents_ids = IF updated THEN @ \cup {docid} ELSE @,
                !.new_documents_ids = @ \cup {docid},
                !.builder = IF updated THEN @ ELSE (external_id :> docid) @@ @]

\* A slip in line 541: the new external id is not given to the builder.
MarkIds_ForgetsBuilder(acc, updated, external_id, docid) ==
    [acc EXCEPT !.replaced_documents_ids = IF updated THEN @ \cup {docid} ELSE @,
                !.new_documents_ids = IF updated THEN @ ELSE @ \cup {docid}]

\* A slip in line 542: the new id is not put into new_documents_ids.
MarkIds_ForgetsNew(acc, updated, external_id, docid) ==
    [acc EXCEPT !.replaced_documents_ids = IF updated THEN @ \cup {docid} ELSE @,
                !.builder = IF updated THEN @ ELSE (external_id :> docid) @@ @]

\* Lines 509 and 541-542: the id goes to replaced_documents_ids on a hit, else to
\* new_documents_ids and, with its external id, to the builder of the new external ids.
MarkIds(acc, updated, external_id, docid) ==
    [acc EXCEPT !.replaced_documents_ids = IF updated THEN @ \cup {docid} ELSE @,
                !.new_documents_ids = IF updated THEN @ ELSE @ \cup {docid},
                !.builder = IF updated THEN @ ELSE (external_id :> docid) @@ @]

\* add_and_merge_original_document: acc with the bitmaps, the builder and the
\* distribution updated, and the record to emit under docid.
add_and_merge_original_document(acc, stored_documents, index_documents_method, updated, external_id, docid, document) ==
    IF updated /\ docid \notin DOMAIN stored_documents
    THEN [acc EXCEPT !.err = Err("DatabaseMissingEntry"),
                     !.replaced_documents_ids = @ \cup {docid}]
    ELSE IF \/ updated /\ ~AllNamed(acc.fields_ids_map, stored_documents[docid])
            \/ ~AllNamed(acc.fields_ids_map,
                         IF updated
                         THEN MergeWithStored(index_documents_method,
                                              stored_documents[docid], document)
                         ELSE document)
    THEN [MarkIds(acc, updated, external_id, docid) EXCEPT !.err = Err("Panic")]
    ELSE LET base_obkv == stored_documents[docid]
             obkv == IF updated
                     THEN MergeWithStored(index_documents_method, base_obkv, document)
                     ELSE document
             counted_out == IF updated
                            THEN DecrementAll(acc.field_distribution, acc.fields_ids_map,
                                              base_obkv)
                            ELSE acc.field_distribution
         IN  [MarkIds(acc, updated, external_id, docid) EXCEPT
                 !.field_distribution = IncrementAll(counted_out, acc.fields_ids_map, obkv),
                 !.obkv = obkv]

\* flatten_serde_json::flatten of an object given as its (key, value) entries:
\* nested objects are replaced by their entries under dot-joined keys.
RECURSIVE InsertObject(_, _)
InsertObject(base_key, object) ==
    IF object = << >> THEN << >>
    ELSE LET key == Head(object)[1]
             value == Head(object)[2]
             new_key == IF base_key = NoName THEN key ELSE base_key \o << "." >> \o key
             here == IF value.k = "object" THEN InsertObject(new_key, value.o)
                     ELSE << << new_key, value >> >>
         IN  here \o InsertObject(base_key, Tail(object))

flatten(doc) == InsertObject(NoName, doc)

\* A slip in line 441: the writer takes a key that is not above the last one.
RECURSIVE WriteFlattened_AnyOrder(_, _, _)
WriteFlattened_AnyOrder(fields_ids_map, flattened, written) ==
    IF flattened = << >> THEN [err |-> NoError, map |-> fields_ids_map, obkv |-> written]
    ELSE LET r == FimInsert(fields_ids_map, Head(flattened)[1])
         IN  IF r.id = None
             THEN [err |-> Err("AttributeLimitReached"), map |-> fields_ids_map,
                   obkv |-> written]
             ELSE WriteFlattened_AnyOrder(r.map, Tail(flattened),
                                          Append(written, << r.id, Head(flattened)[2] >>))

\* Lines 438-442: the flattened entries written through a KvWriter, each key
\* registered in the fields ids map: [err, map, obkv].
RECURSIVE WriteFlattened(_, _, _)
WriteFlattened(fields_ids_map, flattened, written) ==
    IF flattened = << >> THEN [err |-> NoError, map |-> fields_ids_map, obkv |-> written]
    ELSE LET r == FimInsert(fields_ids_map, Head(flattened)[1])
         IN  IF r.id = None
             THEN [err |-> Err("AttributeLimitReached"), map |-> fields_ids_map,
                   obkv |-> written]
             ELSE IF written # << >> /\ written[Len(written)][1] >= r.id
             THEN [err |-> Err("Io"), map |-> r.map, obkv |-> written]
             ELSE WriteFlattened(r.map, Tail(flattened),
                                 Append(written, << r.id, Head(flattened)[2] >>))

\* Lines 420-444: the flattened record of an emitted record.
FlattenedObkv(fields_ids_map, obkv) ==
    LET doc == [i \in 1..Len(obkv) |-> << FimName(fields_ids_map, obkv[i][1]), obkv[i][2] >>]
    IN  WriteFlattened(fields_ids_map, flatten(doc), << >>)

\* A slip in lines 394-395: the allocator does not move on, the smallest unused id of
\* the index is handed out again.
NextDocid_IgnoresHanded(stored_documents_ids, handed) == AvailableNext(stored_documents_ids)

\* A slip in line 345: the ids the index already uses are not kept out.
NextDocid_IgnoresUsed(stored_documents_ids, handed) == AvailableNext(handed)

\* Lines 345 and 394-395: available_documents_ids is built from the used ids of the
\* index; next() yields the smallest id neither used nor yielded before.
NextDocid(stored_documents_ids, handed) == AvailableNext(stored_documents_ids \cup handed)

\* A slip in line 424: the record read from the sorter is flattened, not the merged one.
WriteEntry_FlattensUpdate(acc, stored, index_documents_method, external_id, update_obkv) ==
    LET hit == external_id \in DOMAIN stored.external_documents_ids
        new_docid == NextDocid(stored.documents_ids, acc.handed)
        docid == IF hit THEN stored.external_documents_ids[external_id] ELSE new_docid
    IN  IF ~hit /\ new_docid = None THEN [acc EXCEPT !.err = Err("DocumentLimitReached")]
        ELSE LET a == add_and_merge_original_document(
                          [acc EXCEPT !.handed = IF hit THEN @ ELSE @ \cup {docid}],
                          stored.documents, index_documents_method, hit, external_id,
                          docid, update_obkv)
                 f == FlattenedObkv(a.fields_ids_map, update_obkv)
                 b == [a EXCEPT !.original_final_sorter = SorterInsert(@, docid, a.obkv),
                                !.documents_count = @ + 1]
             IN  IF a.err.kind # "" THEN a
                 ELSE IF f.err.kind # ""
                 THEN [b EXCEPT !.err = f.err, !.fields_ids_map = f.map]
                 ELSE [b EXCEPT !.fields_ids_map = f.map,
                                !.flattened_final_sorter = SorterInsert(@, docid, f.obkv)]

\* A slip in line 418: only the documents given a new id are counted.
WriteEntry_CountsNewOnly(acc, stored, index_documents_method, external_id, update_obkv) ==
    LET hit == external_id \in DOMAIN stored.external_documents_ids
        new_docid == NextDocid(stored.documents_ids, acc.handed)
        docid == IF hit THEN stored.external_documents_ids[external_id] ELSE new_docid
    IN  IF ~hit /\ new_docid = None THEN [acc EXCEPT !.err = Err("DocumentLimitReached")]
        ELSE LET a == add_and_merge_original_document(
                          [acc EXCEPT !.handed = IF hit THEN @ ELSE @ \cup {docid}],
                          stored.documents, index_documents_method, hit, external_id,
                          docid, update_obkv)
                 f == FlattenedObkv(a.fields_ids_map, a.obkv)
                 b == [a EXCEPT !.original_final_sorter = SorterInsert(@, docid, a.obkv),
                                !.documents_count = IF hit THEN @ ELSE @ + 1]
             IN  IF a.err.kind # "" THEN a
                 ELSE IF f.err.kind # ""
                 THEN [b EXCEPT !.err = f.err, !.fields_ids_map = f.map]
                 ELSE [b EXCEPT !.fields_ids_map = f.map,
                                !.flattened_final_sorter = SorterInsert(@, docid, f.obkv)]

\* One iteration of the loop of write_final_sorter (lines 383-445).
WriteEntry(acc, stored, index_documents_method, external_id, update_obkv) ==
    LET hit == external_id \in DOMAIN stored.external_documents_ids
        new_docid == NextDocid(stored.documents_ids, acc.handed)
        docid == IF hit THEN stored.external_documents_ids[external_id] ELSE new_docid
    IN  IF ~hit /\ new_docid = None THEN [acc EXCEPT !.err = Err("DocumentLimitReached")]
        ELSE LET a == add_and_merge_original_document(
                          [acc EXCEPT !.handed = IF hit THEN @ ELSE @ \cup {docid}],
                          stored.documents, index_documents_method, hit, external_id,
                          docid, update_obkv)
                 f == FlattenedObkv(a.fields_ids_map, a.obkv)
                 b == [a EXCEPT !.original_final_sorter = SorterInsert(@, docid, a.obkv),
                                !.documents_count = @ + 1]
             IN  IF a.err.kind # "" THEN a
                 ELSE IF f.err.kind # ""
                 THEN [b EXCEPT !.err = f.err, !.fields_ids_map = f.map]
                 ELSE [b EXCEPT !.fields_ids_map = f.map,
                                !.flattened_final_sorter = SorterInsert(@, docid, f.obkv)]

RECURSIVE WriteLoop(_, _, _, _, _)
WriteLoop(acc, stored, index_documents_method, sorter, keys) ==
    IF keys = << >> \/ acc.err.kind # "" THEN acc
    ELSE WriteLoop(
             WriteEntry(acc, stored, index_documents_method, Head(keys),
                        merge_function(index_documents_method, sorter[Head(keys)])),
             stored, index_documents_method, sorter, Tail(keys))

\* The ids of a final sorter in ascending order.
RECURSIVE SortedIds(_)
SortedIds(ids) ==
    IF ids = {} THEN << >>
    ELSE LET least == CHOOSE a \in ids : \A b \in ids : a <= b
         IN  << least >> \o SortedIds(ids \ {least})

\* Lines 349-355: the merge function of the final sorters.
ForbidDuplicates(sorter) == \E d \in DOMAIN sorter : Len(sorter[d]) # 1

\* A slip in lines 417 and 462: the records leave in descending key order.
StreamOf_Descending(sorter) ==
    LET ids == SortedIds(DOMAIN sorter)
    IN  [i \in 1..Len(ids) |-> << ids[Len(ids) + 1 - i], sorter[ids[Len(ids) + 1 - i]][1] >>]

\* write_into_stream_writer: the (docid, record) pairs in ascending docid.
StreamOf(sorter) ==
    LET ids == SortedIds(DOMAIN sorter)
    IN  [i \in 1..Len(ids) |-> << ids[i], sorter[ids[i]][1] >>]

\* ExternalDocumentsIds::insert_ids: the new ids override.
insert_ids(external_documents_ids, new_ids) == new_ids @@ external_documents_ids

NoOutput ==
    [primary_key |-> NoName, fields_ids_map |-> [base |-> 0, names |-> << >>],
     field_distribution |-> << >>, external_documents_ids |-> << >>,
     new_documents_ids |-> {}, replaced_documents_ids |-> {}, documents_count |-> 0,
     original_documents |-> << >>, flattened_documents |-> << >>]

\* write_final_sorter: the accumulator after the loop and the final merges.
write_final_sorter(stored, index_documents_method, original_sorter) ==
    LET acc0 == [err |-> NoError, handed |-> {},
                 field_distribution |-> stored.field_distribution,
                 fields_ids_map |-> stored.fields_ids_map,
                 replaced_documents_ids |-> {}, new_documents_ids |-> {},
                 builder |-> << >>, obkv |-> << >>,
                 original_final_sorter |-> EmptySorter,
                 flattened_final_sorter |-> EmptySorter, documents_count |-> 0]
        acc == WriteLoop(acc0, stored, index_documents_method, original_sorter,
                         SortedKeys(DOMAIN original_sorter))
    IN  IF acc.err.kind # "" THEN acc
        ELSE IF ForbidDuplicates(acc.original_final_sorter)
                \/ ForbidDuplicates(acc.flattened_final_sorter)
        THEN [acc EXCEPT !.err = Err("IndexingMergingKeys")]
        ELSE acc

\* output_from_sorter: [err, output].
output_from_sorter(stored, index_documents_method, original_sorter) ==
    LET acc == write_final_sorter(stored, index_documents_method, original_sorter)
    IN  IF stored.primary_key = NoName
        THEN [err |-> Err("MissingPrimaryKey"), output |-> NoOutput]
        ELSE IF acc.err.kind # "" THEN [err |-> acc.err, output |-> NoOutput]
        ELSE [err |-> NoError,
              output |->
                [primary_key |-> stored.primary_key,
                 fields_ids_map |-> acc.fields_ids_map,
                 field_distribution |-> acc.field_distribution,
                 external_documents_ids |->
                     insert_ids(stored.external_documents_ids, acc.builder),
                 new_documents_ids |-> acc.new_documents_ids,
                 replaced_documents_ids |-> acc.replaced_documents_ids,
                 documents_count |-> acc.documents_count,
                 original_documents |-> StreamOf(acc.original_final_sorter),
                 flattened_documents |-> StreamOf(acc.flattened_final_sorter)]]

(***************************************************************************)
(* The inputs: field names, documents, batches, generated uuids and the    *)
(* states of the index a Transform is created over.                        *)
(***************************************************************************)
ID == << "i", "d" >>
UID == << "U", "I", "D" >>
T == << "t" >>
U == << "u" >>
A == << "a" >>
B == << "b" >>

S(c) == JString(<< c >>)

\* The documents a reader may hand over, as JSON objects.
Docs ==
    { << << ID, S("a") >>, << T, S("y") >> >>,
      << << ID, S("a") >>, << U, S("z") >> >>,
      << << ID, JString(<< " ", "b", " " >>) >>, << T, S("y") >> >>,
      << << ID, JNumber(17) >>, << A, JObject(<< << B, S("x") >> >>) >>, << T, S("x") >> >>,
      << << ID, JString(<< "a", " ", "b" >>) >> >>,
      << << ID, JString(<< " " >>) >>, << T, S("x") >> >>,
      << << T, S("x") >> >>,
      << << UID, S("c") >>, << ID, S("b") >> >>,
      << << ID, JNull >> >> }

\* What Uuid::new_v4 may return (hyphenated lowercase).
Uuids == { << "0", "-", "e" >>, << "1", "-", "e" >> }

RECURSIVE Dedup(_, _)
Dedup(s, seen) ==
    IF s = << >> THEN << >>
    ELSE IF Head(s) \in seen THEN Dedup(Tail(s), seen)
    ELSE << Head(s) >> \o Dedup(Tail(s), seen \cup {Head(s)})

RECURSIVE Concat(_)
Concat(ss) == IF ss = << >> THEN << >> ELSE Head(ss) \o Concat(Tail(ss))

\* The field names of a batch in the order the batch builder met them.
BatchNames(jsons) ==
    LET entries == Concat(jsons)
    IN  Dedup([i \in 1..Len(entries) |-> entries[i][1]], {})

LocalId(names, name) == (CHOOSE i \in 1..Len(names) : names[i] = name) - 1

\* The iteration orders of a batch index (a hash map): ascending or descending local id.
Orders == {"asc", "desc"}

Reorder(seq, order) ==
    IF order = "asc" THEN seq ELSE [i \in 1..Len(seq) |-> seq[Len(seq) + 1 - i]]

\* The batch a reader yields for the JSON documents: the index maps the local
\* ids 0, 1, ... to the names, each record lists its fields by local id.
BatchOf(jsons, order) ==
    LET names == BatchNames(jsons)
    IN  [index |-> Reorder([i \in 1..Len(names) |-> << i - 1, names[i] >>], order),
         docs |-> [d \in 1..Len(jsons) |->
                      SortByKey([i \in 1..Len(jsons[d]) |->
                                    << LocalId(names, jsons[d][i][1]), jsons[d][i][2] >>])]]

\* The states of the index: empty; holding two documents under the ids 0 and 2;
\* each with room left in the fields ids map or with none.
EmptyIndex(base) ==
    [fields_ids_map |-> [base |-> base, names |-> << >>], primary_key |-> NoName,
     documents |-> << >>, documents_ids |-> {}, external_documents_ids |-> << >>,
     field_distribution |-> << >>]

StockedIndex(base) ==
    [fields_ids_map |-> [base |-> base, names |-> << ID, T, U, A >>], primary_key |-> ID,
     documents |->
         (0 :> << << base, S("a") >>, << base + 1, S("x") >>, << base + 2, S("q") >> >>) @@
         (2 :> << << base, S("c") >>, << base + 1, S("x") >> >>),
     documents_ids |-> {0, 2},
     external_documents_ids |-> (<< "a" >> :> 0) @@ (<< "c" >> :> 2),
     field_distribution |-> (ID :> 2) @@ (T :> 2) @@ (U :> 1)]

Indexes ==
    { EmptyIndex(0), EmptyIndex(FieldIdLimit - 1), StockedIndex(0),
      StockedIndex(FieldIdLimit - 4) }

Methods == {"ReplaceDocuments", "UpdateDocuments"}

(***************************************************************************)
(* The state: the index as the write transaction sees it, the Transform,   *)
(* and what its calls returned.                                            *)
(***************************************************************************)
VARIABLES
    fields_ids_map,           \* index: the persisted FieldsIdsMap
    primary_key,              \* index: the persisted primary key name, or NoName
    documents,                \* index: internal id -> stored record
    documents_ids,            \* index: the used internal ids
    external_documents_ids,   \* index: external id -> internal id
    field_distribution,       \* index: field name -> number of documents
    index_documents_method,   \* Transform
    autogenerate_docids,      \* Transform
    original_sorter,          \* Transform
    documents_count,          \* Transform
    phase,                    \* "Ingesting", or "Done" / "Failed" once output_from_sorter ran
    records_read,             \* records handed over by the readers so far
    last,                     \* the last call: its inputs, what it saw, its map and its error
    output                    \* the TransformOutput of output_from_sorter

vars ==
    << fields_ids_map, primary_key, documents, documents_ids, external_documents_ids,
       field_distribution, index_documents_method, autogenerate_docids, original_sorter,
       documents_count, phase, records_read, last, output >>

index_vars ==
    << documents, documents_ids, external_documents_ids, field_distribution >>

Stored ==
    [fields_ids_map |-> fields_ids_map, primary_key |-> primary_key,
     documents |-> documents, documents_ids |-> documents_ids,
     external_documents_ids |-> external_documents_ids,
     field_distribution |-> field_distribution]

NoBatch == [index |-> << >>, docs |-> << >>]

\* What a call found persisted when it started.
Persisted == [fields_ids_map |-> fields_ids_map, primary_key |-> primary_key]

NoCall ==
    [op |-> "", batch |-> NoBatch,
     stored |-> [fields_ids_map |-> [base |-> 0, names |-> << >>], primary_key |-> NoName],
     sorter |-> EmptySorter, err |-> NoError, primary_key_name |-> NoName,
     primary_key_id |-> None, fields_ids_map |-> [base |-> 0, names |-> << >>]]

\* Transform::new over an index.
Init ==
    \E idx \in Indexes, method \in Methods, autogen \in BOOLEAN :
        /\ fields_ids_map = idx.fields_ids_map
        /\ primary_key = idx.primary_key
        /\ documents = idx.documents
        /\ documents_ids = idx.documents_ids
        /\ external_documents_ids = idx.external_documents_ids
        /\ field_distribution = idx.field_distribution
        /\ index_documents_method = method
        /\ autogenerate_docids = autogen
        /\ original_sorter = EmptySorter
        /\ documents_count = 0
        /\ phase = "Ingesting"
        /\ records_read = 0
        /\ last = NoCall
        /\ output = NoOutput

\* A slip in lines 254-256: the map, the primary key and the count are written before
\* the loop, so also by a call that fails.
Ingest_PersistsEarly(jsons, order, uuids) ==
    \E batch \in {BatchOf(jsons, order)} :
    \E r \in {read_documents(original_sorter, fields_ids_map, primary_key,
                             autogenerate_docids, batch, uuids)} :
        /\ records_read' = records_read + Len(jsons)
        /\ original_sorter' = r.sorter
        /\ fields_ids_map' = r.fields_ids_map
        /\ primary_key' = r.primary_key_name
        /\ documents_count' = documents_count + r.documents_count
        /\ last' = [op |-> "read_documents",
                    batch |-> [batch EXCEPT !.index = SortByKey(@)],
                    stored |-> Persisted, sorter |-> original_sorter, err |-> r.err,
                    primary_key_name |-> r.primary_key_name,
                    primary_key_id |-> r.primary_key_id,
                    fields_ids_map |-> r.fields_ids_map]
        /\ UNCHANGED << index_vars, index_documents_method, autogenerate_docids, phase,
                        output >>

\* Transform::read_documents on the batch of `jsons`.
Ingest(jsons, order, uuids) ==
    \E batch \in {BatchOf(jsons, order)} :
    \E r \in {read_documents(original_sorter, fields_ids_map, primary_key,
                             autogenerate_docids, batch, uuids)} :
        /\ records_read' = records_read + Len(jsons)
        /\ original_sorter' = r.sorter
        /\ fields_ids_map' = IF r.err.kind = "" THEN r.fields_ids_map ELSE fields_ids_map
        /\ primary_key' = IF r.err.kind = "" THEN r.primary_key_name ELSE primary_key
        /\ documents_count' = IF r.err.kind = "" THEN documents_count + r.documents_count
                              ELSE documents_count
        /\ last' = [op |-> "read_documents",
                    batch |-> [batch EXCEPT !.index = SortByKey(@)],
                    stored |-> Persisted, sorter |-> original_sorter, err |-> r.err,
                    primary_key_name |-> r.primary_key_name,
                    primary_key_id |-> r.primary_key_id,
                    fields_ids_map |-> r.fields_ids_map]
        /\ UNCHANGED << index_vars, index_documents_method, autogenerate_docids, phase,
                        output >>

\* A slip in lines 278-319: the fields ids map output_from_sorter worked on is put
\* back into the index.
Finalize_PutsFieldsIdsMap ==
    \E r \in {output_from_sorter(Stored, index_documents_method, original_sorter)} :
        /\ phase = "Ingesting"
        /\ phase' = IF r.err.kind = "" THEN "Done" ELSE "Failed"
        /\ output' = r.output
        /\ last' = [op |-> "output_from_sorter", batch |-> NoBatch, stored |-> Persisted,
                    sorter |-> original_sorter, err |-> r.err,
                    primary_key_name |-> NoName, primary_key_id |-> None,
                    fields_ids_map |-> fields_ids_map]
        /\ original_sorter' = EmptySorter
        /\ fields_ids_map' = IF r.err.kind = "" THEN r.output.fields_ids_map
                             ELSE fields_ids_map
        /\ UNCHANGED << primary_key, index_vars, index_documents_method,
                        autogenerate_docids, documents_count, records_read >>

\* Transform::output_from_sorter.
Finalize ==
    \E r \in {output_from_sorter(Stored, index_documents_method, original_sorter)} :
        /\ phase = "Ingesting"
        /\ phase' = IF r.err.kind = "" THEN "Done" ELSE "Failed"
        /\ output' = r.output
        /\ last' = [op |-> "output_from_sorter", batch |-> NoBatch, stored |-> Persisted,
                    sorter |-> original_sorter, err |-> r.err,
                    primary_key_name |-> NoName, primary_key_id |-> None,
                    fields_ids_map |-> fields_ids_map]
        /\ original_sorter' = EmptySorter
        /\ UNCHANGED << fields_ids_map, primary_key, index_vars, index_documents_method,
                        autogenerate_docids, documents_count, records_read >>

\* The Transform is alive until output_from_sorter consumes it.
Next ==
    \/ /\ phase = "Ingesting"
       /\ \E n \in 0..(MaxRecords - records_read) : \E jsons \in [1..n -> Docs] :
             \E order \in Orders :
               \E uuids \in [1..n -> IF autogenerate_docids THEN Uuids ELSE {NoName}] :
                   Ingest(jsons, order, uuids)
    \/ Finalize

Spec == Init /\ [][Next]_vars

(***************************************************************************)
(* Reading the state for the properties below.                             *)
(***************************************************************************)
ValueAt(obkv, fid) == obkv[KvGet(obkv, fid)][2]

StreamIds(stream) == {stream[i][1] : i \in 1..Len(stream)}

RecordOf(stream, docid) ==
    stream[CHOOSE i \in 1..Len(stream) : stream[i][1] = docid][2]

\* The field ids held by some record of a list.
ListKeys(list) == UNION {KvKeys(list[i]) : i \in 1..Len(list)}

\* The value of a field in the last record of a list that holds it.
LatestValue(list, fid) ==
    LET holders == {i \in 1..Len(list) : fid \in KvKeys(list[i])}
    IN  ValueAt(list[CHOOSE i \in holders : \A j \in holders : j <= i], fid)

\* output_from_sorter returned a TransformOutput for the sorter last.sorter.
Finalized == phase = "Done"

\* The external ids drained by output_from_sorter that the index already knew.
Hits == {e \in DOMAIN last.sorter : e \in DOMAIN external_documents_ids}

\* The external ids drained by output_from_sorter that the index did not know.
Misses == {e \in DOMAIN last.sorter : e \notin DOMAIN external_documents_ids}

(***************************************************************************)
(* C1: after a successful Finalize, the record emitted under the internal  *)
(* id d of an external id the index already knew is, in Replace mode, the  *)
(* last record ingested under that external id (nothing of the stored      *)
(* record survives), and in Update mode the union of the stored record and *)
(* the ingested ones, where a field ingested takes its latest ingested     *)
(* value and a field only in the stored record keeps the stored value.     *)
(***************************************************************************)
C1_HitRecord ==
    Finalized =>
        \A e \in Hits :
            LET d == external_documents_ids[e]
                prior == documents[d]
                list == last.sorter[e]
                emitted == RecordOf(output.original_documents, d)
            IN  /\ d \in StreamIds(output.original_documents)
                /\ IF index_documents_method = "ReplaceDocuments"
                   THEN emitted = list[Len(list)]
                   ELSE /\ KvKeys(emitted) = KvKeys(prior) \cup ListKeys(list)
                        /\ \A fid \in KvKeys(emitted) :
                               ValueAt(emitted, fid) =
                                   IF fid \in ListKeys(list) THEN LatestValue(list, fid)
                                   ELSE ValueAt(prior, fid)

\* Update mode: a hit whose stored record holds a field the batch lacks and a
\* field the batch gives another value.
C1_Witness ==
    /\ Finalized
    /\ index_documents_method = "UpdateDocuments"
    /\ \E e \in Hits :
           LET prior == documents[external_documents_ids[e]]
               list == last.sorter[e]
           IN  /\ KvKeys(prior) \ ListKeys(list) # {}
               /\ \E fid \in KvKeys(prior) \cap ListKeys(list) :
                      ValueAt(prior, fid) # LatestValue(list, fid)

(***************************************************************************)
(* C2: after a successful Finalize, every external id the index did not    *)
(* know got the smallest internal id that is neither used by the index nor *)
(* given to an external id drained before it (a smaller one in byte        *)
(* order); so new ids grow with the external ids and none is an id the     *)
(* index already used.                                                     *)
(***************************************************************************)
C2_SmallestUnusedId ==
    Finalized =>
        /\ \A e \in Misses :
               LET d == output.external_documents_ids[e]
                   before == {output.external_documents_ids[f] :
                                 f \in {g \in Misses : BytesLess(g, e)}}
               IN  /\ e \in DOMAIN output.external_documents_ids
                   /\ d \notin documents_ids
                   /\ d \notin before
                   /\ \A k \in 0..(d - 1) : k \in documents_ids \cup before
                   /\ d \in StreamIds(output.original_documents)
        /\ \A e1, e2 \in Misses :
               BytesLess(e1, e2) =>
                   output.external_documents_ids[e1] < output.external_documents_ids[e2]

\* Two new external ids, the ids given to them skipping ids the index uses.
C2_Witness ==
    /\ Finalized
    /\ \E e1, e2 \in Misses :
           /\ BytesLess(e1, e2)
           /\ \E k \in documents_ids : k < output.external_documents_ids[e1]
           /\ \E k \in documents_ids :
                  /\ output.external_documents_ids[e1] < k
                  /\ k < output.external_documents_ids[e2]

(***************************************************************************)
(* C3: the records ingested under one external id are collapsed in         *)
(* insertion order: in Replace mode the record emitted is the last one     *)
(* inserted; in Update mode (for an external id the index did not know)    *)
(* it holds every field of every one of them, each with the value of the   *)
(* last record inserted that holds the field.                              *)
(***************************************************************************)
C3_CollapseInInsertionOrder ==
    Finalized =>
        \A e \in DOMAIN last.sorter :
            LET list == last.sorter[e]
                emitted == RecordOf(output.original_documents,
                                    output.external_documents_ids[e])
            IN  IF index_documents_method = "ReplaceDocuments"
                THEN emitted = list[Len(list)]
                ELSE e \in Misses =>
                         /\ KvKeys(emitted) = ListKeys(list)
                         /\ \A fid \in KvKeys(emitted) :
                                ValueAt(emitted, fid) = LatestValue(list, fid)

\* Update mode: two records under a new external id, the first with a field the
\* second lacks and with a field the second gives another value.
C3_Witness ==
    /\ Finalized
    /\ index_documents_method = "UpdateDocuments"
    /\ \E e \in Misses :
           LET list == last.sorter[e]
           IN  /\ Len(list) = 2
               /\ KvKeys(list[1]) \ KvKeys(list[2]) # {}
               /\ \E fid \in KvKeys(list[1]) \cap KvKeys(list[2]) :
                      ValueAt(list[1], fid) # ValueAt(list[2], fid)

(***************************************************************************)
(* C4: after a successful Finalize, every internal id of the original or   *)
(* the flattened stream is in exactly one of new_documents_ids and         *)
(* replaced_documents_ids, and the two bitmaps hold no other id.           *)
(***************************************************************************)
C4_NewXorReplaced ==
    Finalized =>
        LET ids == StreamIds(output.original_documents)
                       \cup StreamIds(output.flattened_documents)
        IN  /\ \A d \in ids :
                   (d \in output.new_documents_ids) # (d \in output.replaced_documents_ids)
            /\ output.new_documents_ids \cup output.replaced_documents_ids \subseteq ids

\* A Finalize that replaced a document and added one.
C4_Witness ==
    /\ Finalized
    /\ output.new_documents_ids # {}
    /\ output.replaced_documents_ids # {}

(***************************************************************************)
(* C5: if the field distribution of the index counts, for every field      *)
(* name, the stored documents that hold the field, then the distribution   *)
(* returned by a successful Finalize counts, for every field name, the     *)
(* documents that hold it once the emitted original records overwrite the  *)
(* stored ones, and it has no entry of count zero.                         *)
(***************************************************************************)
\* The documents table once the original stream is written into it.
PostDocuments ==
    [d \in (DOMAIN documents) \cup StreamIds(output.original_documents) |->
        IF d \in StreamIds(output.original_documents)
        THEN RecordOf(output.original_documents, d)
        ELSE documents[d]]

\* The number of records of a table that hold the field `name` of the map m.
Holders(table, m, name) ==
    Cardinality({d \in DOMAIN table : FimId(m, name) \in KvKeys(table[d])})

\* A distribution that counts the holders of every name of the map, and of no other.
Accurate(distribution, table, m) ==
    /\ \A name \in DOMAIN distribution :
           distribution[name] > 0 /\ FimId(m, name) # None
    /\ \A i \in 1..Len(m.names) :
           Holders(table, m, m.names[i]) =
               IF m.names[i] \in DOMAIN distribution THEN distribution[m.names[i]] ELSE 0

C5_FieldDistribution ==
    (Finalized /\ Accurate(field_distribution, documents, fields_ids_map)) =>
        Accurate(output.field_distribution, PostDocuments, output.fields_ids_map)

\* A Finalize after which a counted field is held by no document any more, and
\* another field is counted for the first time.
C5_Witness ==
    /\ Finalized
    /\ Accurate(field_distribution, documents, fields_ids_map)
    /\ (DOMAIN field_distribution) \ (DOMAIN output.field_distribution) # {}
    /\ (DOMAIN output.field_distribution) \ (DOMAIN field_distribution) # {}

(***************************************************************************)
(* C6: each of the two streams of a successful Finalize lists its records  *)
(* in strictly ascending internal id.                                      *)
(***************************************************************************)
Ascending(stream) == \A i \in 1..(Len(stream) - 1) : stream[i][1] < stream[i + 1][1]

C6_StreamsAscending ==
    Finalized =>
        /\ Ascending(output.original_documents)
        /\ Ascending(output.flattened_documents)

\* Streams of two records whose external ids are drained in the other order.
C6_Witness ==
    /\ Finalized
    /\ Len(output.original_documents) = 2
    /\ Len(output.flattened_documents) = 2
    /\ \E e1, e2 \in DOMAIN last.sorter :
           /\ BytesLess(e1, e2)
           /\ output.external_documents_ids[e2] < output.external_documents_ids[e1]

(***************************************************************************)
(* Reading the last read_documents call.                                   *)
(***************************************************************************)
IngestCall == last.op = "read_documents"

\* The call got past create_fields_mapping and compute_primary_key_pair.
Resolved == IngestCall /\ last.primary_key_id # None

SorterSize(sorter) ==
    Cardinality(UNION {{<< k, i >> : i \in 1..Len(sorter[k])} : k \in DOMAIN sorter})

\* The number of records of the batch the call inserted into the sorter.
Accepted == SorterSize(original_sorter) - SorterSize(last.sorter)

\* The records the call inserted under the key e.
Appended(e) ==
    IF e \in DOMAIN last.sorter
    THEN SubSeq(original_sorter[e], Len(last.sorter[e]) + 1, Len(original_sorter[e]))
    ELSE original_sorter[e]

\* The record of the batch holds the field the call resolved as the primary key.
HasPk(doc) ==
    \E i \in 1..Len(doc) : BatchName(last.batch.index, doc[i][1]) = last.primary_key_name

PkValue(doc) ==
    doc[CHOOSE i \in 1..Len(doc) :
            BatchName(last.batch.index, doc[i][1]) = last.primary_key_name][2]

\* The names of the batch the registry did not hold when the call started.
BatchNewNames ==
    {last.batch.index[i][2] : i \in 1..Len(last.batch.index)}
        \ {last.stored.fields_ids_map.names[i] :
              i \in 1..Len(last.stored.fields_ids_map.names)}

\* The registry has room for every new name of the batch.
MappingFits ==
    FimLen(last.stored.fields_ids_map) + Cardinality(BatchNewNames) <= FieldIdLimit

Occurrences(names, name) == Cardinality({i \in 1..Len(names) : names[i] = name})

\* The lowercased name contains "id".
HasId(name) ==
    \E i \in 1..(Len(name) - 1) : name[i] \in {"i", "I"} /\ name[i + 1] \in {"d", "D"}

\* The fields of the batch whose name contains "id", by position in the batch index.
Candidates == {i \in 1..Len(last.batch.index) : HasId(last.batch.index[i][2])}

\* The candidate of smallest batch-local id.
Chosen ==
    last.batch.index[CHOOSE i \in Candidates :
                         \A j \in Candidates :
                             last.batch.index[i][1] <= last.batch.index[j][1]][2]

(***************************************************************************)
(* C7: the external id of a record comes from its primary key value: a     *)
(* string is trimmed and accepted only if what is left is non-empty and    *)
(* made of characters of [A-Za-z0-9_-], the external id being the trimmed  *)
(* string; a number is accepted, its external id being its decimal form;   *)
(* any other value, and any other string, makes read_documents fail with   *)
(* InvalidDocumentId (carrying the value).  So every record a call         *)
(* inserted sits under the derived id of its primary key value, and the    *)
(* call stopped with InvalidDocumentId exactly at the first record whose   *)
(* primary key value has no derived id.                                    *)
(***************************************************************************)
\* The characters [A-Za-z0-9_-] among the characters of the model.
IdAlphabet == (DOMAIN Code) \ {" ", "."}

\* The external id the rule gives a primary key value; NoName: to be refused.
DerivedId(value) ==
    IF value.k = "string"
    THEN IF /\ Trim(value.s) # << >>
            /\ \A i \in 1..Len(Trim(value.s)) : Trim(value.s)[i] \in IdAlphabet
         THEN Trim(value.s)
         ELSE NoName
    ELSE IF value.k = "number" THEN NumberToString(value.n)
    ELSE NoName

C7_ExternalIdDerivation ==
    Resolved =>
        LET docs == last.batch.docs
        IN  /\ \A i \in 1..Len(docs) :
                   (i <= Accepted /\ HasPk(docs[i])) =>
                       LET e == DerivedId(PkValue(docs[i]))
                       IN  /\ e # NoName
                           /\ e \in DOMAIN original_sorter
                           /\ \E j \in 1..Len(Appended(e)) :
                                  ValueAt(Appended(e)[j], last.primary_key_id)
                                      = PkValue(docs[i])
            /\ \A e \in (DOMAIN original_sorter) \ Uuids :
                   Len(Appended(e)) =
                       Cardinality({i \in 1..Accepted :
                                       /\ HasPk(docs[i])
                                       /\ DerivedId(PkValue(docs[i])) = e})
            /\ (Accepted < Len(docs) /\ HasPk(docs[Accepted + 1])) =>
                   /\ DerivedId(PkValue(docs[Accepted + 1])) = NoName
                   /\ last.err.kind = "InvalidDocumentId"
                   /\ last.err.document_id = PkValue(docs[Accepted + 1])
            /\ last.err.kind = "InvalidDocumentId" =>
                   Accepted < Len(docs) /\ HasPk(docs[Accepted + 1])

\* A call that inserted a record under the trimmed form of its id and then refused
\* a string id.
C7_Witness ==
    /\ Resolved
    /\ last.err.kind = "InvalidDocumentId"
    /\ last.err.document_id.k = "string"
    /\ \E i \in 1..Accepted :
           LET doc == last.batch.docs[i]
           IN  /\ HasPk(doc)
               /\ PkValue(doc).k = "string"
               /\ Trim(PkValue(doc).s) # PkValue(doc).s
               /\ Trim(PkValue(doc).s) \in DOMAIN original_sorter

(***************************************************************************)
(* C8: when the index holds a primary key, read_documents resolves that    *)
(* name, whatever the names of the batch and autogenerate_docids are, and  *)
(* takes the id the map already gives it, the map holding the name once;   *)
(* and no call changes a primary key the index holds.                      *)
(***************************************************************************)
C8_Resolution ==
    (IngestCall /\ last.stored.primary_key # NoName) =>
        LET pk == last.stored.primary_key
        IN  /\ primary_key = pk
            /\ MappingFits =>
                   /\ last.primary_key_name = pk
                   /\ last.primary_key_id # None
                   /\ FimId(last.stored.fields_ids_map, pk) # None =>
                          last.primary_key_id = FimId(last.stored.fields_ids_map, pk)
            /\ last.err.kind = "" =>
                   /\ Occurrences(fields_ids_map.names, pk) = 1
                   /\ FimId(fields_ids_map, pk) = last.primary_key_id

C8_StoredPrimaryKeyKept ==
    /\ []C8_Resolution
    /\ [][primary_key # NoName => primary_key' = primary_key]_vars

\* A successful call over an index with a primary key, on a batch that has another
\* field whose name contains "id", of smaller local id.
C8_Witness ==
    /\ IngestCall
    /\ last.err.kind = ""
    /\ last.stored.primary_key # NoName
    /\ Candidates # {}
    /\ Chosen # last.stored.primary_key
    /\ primary_key = last.stored.primary_key
    /\ Accepted > 0

(***************************************************************************)
(* C9: when the index holds no primary key and the batch has fields whose  *)
(* lowercased name contains "id", read_documents resolves the one of       *)
(* smallest batch-local id, in whatever order the batch index is iterated; *)
(* the name is in the map under the resolved id and, when the call         *)
(* succeeds, it is the primary key of the index.                           *)
(***************************************************************************)
C9_InferredPrimaryKey ==
    (IngestCall /\ last.stored.primary_key = NoName /\ MappingFits /\ Candidates # {}) =>
        /\ last.primary_key_name = Chosen
        /\ last.primary_key_id # None
        /\ last.err.kind \notin {"MissingPrimaryKey", "AttributeLimitReached"}
        /\ last.err.kind = "MissingDocumentId" => last.err.primary_key = Chosen
        /\ last.err.kind = "" =>
               /\ primary_key = Chosen
               /\ FimId(fields_ids_map, Chosen) = last.primary_key_id

\* A successful call on a batch with two such fields, the one chosen not being "id".
C9_Witness ==
    /\ IngestCall
    /\ last.err.kind = ""
    /\ last.stored.primary_key = NoName
    /\ Cardinality(Candidates) = 2
    /\ Chosen # DEFAULT_PRIMARY_KEY_NAME
    /\ primary_key = Chosen
    /\ Accepted > 0

(***************************************************************************)
(* C10: when the index holds no primary key and no name of the batch       *)
(* contains "id": with autogenerate_docids the name "id" is registered and *)
(* becomes the primary key; without it the resolution fails with           *)
(* MissingPrimaryKey and the map gets no name.                             *)
(***************************************************************************)
C10_Case == IngestCall /\ last.stored.primary_key = NoName /\ MappingFits /\ Candidates = {}

\* "id" is registered under the resolved id and, the call succeeding, is the primary key.
C10_DefaultName ==
    /\ last.primary_key_name = DEFAULT_PRIMARY_KEY_NAME
    /\ last.primary_key_id # None
    /\ last.err.kind = "" =>
           /\ primary_key = DEFAULT_PRIMARY_KEY_NAME
           /\ FimId(fields_ids_map, DEFAULT_PRIMARY_KEY_NAME) = last.primary_key_id

C10_NoPrimaryKey ==
    /\ last.err.kind = "MissingPrimaryKey"
    /\ fields_ids_map = last.stored.fields_ids_map
    /\ primary_key = NoName

\* The claim as stated.
C10_DefaultOrMissing ==
    C10_Case => IF autogenerate_docids THEN C10_DefaultName ELSE C10_NoPrimaryKey

\* Once the names of the batch are in, the map holds 2^16 names and "id" is not one.
C10_RegistryFull ==
    /\ FimLen(last.stored.fields_ids_map) + Cardinality(BatchNewNames) = FieldIdLimit
    /\ FimId(last.stored.fields_ids_map, DEFAULT_PRIMARY_KEY_NAME) = None

(***************************************************************************)
(* C10, amended: as stated, except that with autogenerate_docids and a map *)
(* that holds 2^16 names without "id" the resolution fails with            *)
(* AttributeLimitReached, the index keeping its map and no primary key.    *)
(***************************************************************************)
C10_DefaultOrMissingUnlessFull ==
    C10_Case =>
        IF ~autogenerate_docids THEN C10_NoPrimaryKey
        ELSE IF C10_RegistryFull
        THEN /\ last.err.kind = "AttributeLimitReached"
             /\ fields_ids_map = last.stored.fields_ids_map
             /\ primary_key = NoName
        ELSE C10_DefaultName /\ last.err.kind = ""

\* A successful call with autogenerate_docids on a batch of records with no such field.
C10_Witness ==
    /\ C10_Case
    /\ autogenerate_docids
    /\ last.err.kind = ""
    /\ Accepted > 0
    /\ primary_key = DEFAULT_PRIMARY_KEY_NAME
    /\ \A e \in DOMAIN original_sorter : e \in Uuids

(***************************************************************************)
(* C11: with autogenerate_docids false, read_documents stops at the first  *)
(* record that has no value under the resolved primary key, with           *)
(* MissingDocumentId naming the primary key and carrying the record as a   *)
(* JSON object: its values under the names the batch gives its fields.     *)
(***************************************************************************)
\* The (name, value) entries of a JSON object.
JsonEntries(object) == {object[i] : i \in 1..Len(object)}

\* The (name, value) entries of a record of the batch, by the names of the batch.
NamedEntries(doc) ==
    {<< BatchName(last.batch.index, doc[i][1]), doc[i][2] >> : i \in 1..Len(doc)}

\* The call stopped at a record that has no value under the primary key.
StoppedAtMissingId ==
    /\ Resolved
    /\ Accepted < Len(last.batch.docs)
    /\ ~HasPk(last.batch.docs[Accepted + 1])

C11_MissingDocumentId ==
    /\ (StoppedAtMissingId /\ ~autogenerate_docids) =>
           /\ last.err.kind = "MissingDocumentId"
           /\ last.err.primary_key = last.primary_key_name
           /\ last.err.primary_key # NoName
           /\ JsonEntries(last.err.document) = NamedEntries(last.batch.docs[Accepted + 1])
           /\ Len(last.err.document) = Len(last.batch.docs[Accepted + 1])
    /\ (IngestCall /\ last.err.kind = "MissingDocumentId") =>
           StoppedAtMissingId /\ ~autogenerate_docids

\* The second record of a batch has fields but none under the primary key inferred
\* from the batch.
C11_Witness ==
    /\ StoppedAtMissingId
    /\ ~autogenerate_docids
    /\ Accepted = 1
    /\ last.stored.primary_key = NoName
    /\ Len(last.batch.docs[2]) >= 2
    /\ last.err.kind = "MissingDocumentId"

(***************************************************************************)
(* C12: with autogenerate_docids, a record that has no value under the     *)
(* primary key is given a generated identifier: it is inserted under that  *)
(* identifier, with the primary key field added to it and holding the      *)
(* identifier as a string, its other fields unchanged; such a record never *)
(* stops the call.  Identifiers the generator did not repeat key as many   *)
(* entries as there are such records, and every entry is emitted as a      *)
(* document of its own whose primary key value is its external id.         *)
(***************************************************************************)
\* Every record handed to read_documents so far was accepted by a call that succeeded.
EveryRecordAccepted == documents_count = records_read

\* The records of the batch the call accepted that have no value under the primary key.
IdLess == {i \in 1..Accepted : ~HasPk(last.batch.docs[i])}

\* The keys under which the call inserted generated identifiers.
GeneratedKeys == {e \in (DOMAIN original_sorter) \cap Uuids : Len(Appended(e)) > 0}

\* The (name, value) entries of a record of the sorter but the primary key, by the
\* names of the map the call worked with.
OtherEntries(obkv) ==
    {<< FimName(last.fields_ids_map, obkv[i][1]), obkv[i][2] >> :
        i \in {j \in 1..Len(obkv) : obkv[j][1] # last.primary_key_id}}

\* The record obkv, inserted under e, is the record doc with the identifier e added.
Injected(e, obkv, doc) ==
    /\ last.primary_key_id \in KvKeys(obkv)
    /\ ValueAt(obkv, last.primary_key_id) = JString(e)
    /\ OtherEntries(obkv) = NamedEntries(doc)
    /\ Len(obkv) = Len(doc) + 1

\* The generator gave the call identifiers it had not given before, each once.
FreshDraws == \A e \in GeneratedKeys : e \notin DOMAIN last.sorter /\ Len(Appended(e)) = 1

C12_GeneratedIds ==
    /\ (Resolved /\ autogenerate_docids) =>
           /\ \A i \in IdLess :
                  \E e \in GeneratedKeys : \E j \in 1..Len(Appended(e)) :
                      Injected(e, Appended(e)[j], last.batch.docs[i])
           /\ \A e \in GeneratedKeys : \A j \in 1..Len(Appended(e)) :
                  \E i \in IdLess : Injected(e, Appended(e)[j], last.batch.docs[i])
           /\ SorterSize([e \in GeneratedKeys |-> Appended(e)]) = Cardinality(IdLess)
           /\ FreshDraws => Cardinality(GeneratedKeys) = Cardinality(IdLess)
           /\ Accepted < Len(last.batch.docs) => HasPk(last.batch.docs[Accepted + 1])
    /\ (Finalized /\ autogenerate_docids /\ EveryRecordAccepted) =>
           LET pk == FimId(output.fields_ids_map, output.primary_key)
               keys == (DOMAIN last.sorter) \cap Uuids
           IN  /\ \A e \in keys :
                      LET d == output.external_documents_ids[e]
                      IN  /\ d \in StreamIds(output.original_documents)
                          /\ pk \in KvKeys(RecordOf(output.original_documents, d))
                          /\ ValueAt(RecordOf(output.original_documents, d), pk) = JString(e)
               /\ \A e1, e2 \in keys :
                      e1 # e2 =>
                          output.external_documents_ids[e1] # output.external_documents_ids[e2]

\* Two records without an id, given two identifiers, emitted as two documents.
C12_Witness ==
    /\ Finalized
    /\ autogenerate_docids
    /\ EveryRecordAccepted
    /\ Cardinality((DOMAIN last.sorter) \cap Uuids) = 2
    /\ Len(output.original_documents) = 2
    /\ \A e \in DOMAIN last.sorter :
           ValueAt(RecordOf(output.original_documents, output.external_documents_ids[e]),
                   FimId(output.fields_ids_map, output.primary_key)) = JString(e)

(***************************************************************************)
(* C13: with autogenerate_docids false, the record emitted for an external *)
(* id holds, under the primary key field, that external id as a string     *)
(* (the trimmed string, the decimal form of a number).                     *)
(***************************************************************************)
C13_PrimaryKeyRoundTrip ==
    (Finalized /\ ~autogenerate_docids /\ EveryRecordAccepted) =>
        \A e \in DOMAIN last.sorter :
            LET emitted == RecordOf(output.original_documents,
                                    output.external_documents_ids[e])
                pk == FimId(output.fields_ids_map, output.primary_key)
            IN  /\ pk \in KvKeys(emitted)
                /\ ValueAt(emitted, pk) = JString(e)

(***************************************************************************)
(* C14: the documents_count of the TransformOutput is the number of        *)
(* distinct external ids among the records ingested, which is the number   *)
(* of records of the original stream and the number of ids of              *)
(* new_documents_ids and replaced_documents_ids together; it is not the    *)
(* number of records read.                                                 *)
(***************************************************************************)
C14_DocumentsCount ==
    Finalized =>
        /\ output.documents_count = Cardinality(DOMAIN last.sorter)
        /\ output.documents_count = Len(output.original_documents)
        /\ output.documents_count =
               Cardinality(output.new_documents_ids)
                   + Cardinality(output.replaced_documents_ids)
        /\ output.documents_count <= SorterSize(last.sorter)

\* Two records read under one external id the index knows: one document counted.
C14_Witness ==
    /\ Finalized
    /\ documents_count = 2
    /\ SorterSize(last.sorter) = 2
    /\ output.documents_count = 1
    /\ output.replaced_documents_ids # {}

(***************************************************************************)
(* C15: the external_documents_ids of a successful Finalize is the map of  *)
(* the index plus one entry for every external id the index did not know:  *)
(* an entry of the index keeps its internal id, a new external id maps to  *)
(* an id newly allocated, every external id of the batch maps to the id    *)
(* its record is emitted under, and the map is injective if the map of     *)
(* the index was.                                                          *)
(***************************************************************************)
Injective(f) == \A a, b \in DOMAIN f : a # b => f[a] # f[b]

C15_ExternalIdsMap ==
    Finalized =>
        LET post == output.external_documents_ids
        IN  /\ DOMAIN post = (DOMAIN external_documents_ids) \cup (DOMAIN last.sorter)
            /\ \A e \in DOMAIN external_documents_ids : post[e] = external_documents_ids[e]
            /\ \A e \in Misses :
                   /\ post[e] \in output.new_documents_ids
                   /\ post[e] \notin documents_ids
            /\ \A e \in DOMAIN last.sorter :
                   LET list == last.sorter[e]
                       latest == list[Len(list)]
                   IN  /\ post[e] \in StreamIds(output.original_documents)
                       /\ \A fid \in KvKeys(latest) :
                              /\ fid \in KvKeys(RecordOf(output.original_documents, post[e]))
                              /\ ValueAt(RecordOf(output.original_documents, post[e]), fid)
                                     = ValueAt(latest, fid)
            /\ Injective(external_documents_ids) => Injective(post)

\* A Finalize over an index that holds documents, on an external id it knew and one
\* it did not.
C15_Witness ==
    /\ Finalized
    /\ external_documents_ids # << >>
    /\ Cardinality(Misses) >= 1
    /\ Cardinality(Hits) >= 1
    /\ \A e \in Misses : output.external_documents_ids[e] \notin documents_ids

(***************************************************************************)
(* One application of a batch: a Transform reads the batch, its output is  *)
(* written into the index.                                                 *)
(***************************************************************************)
\* The index once a TransformOutput is stored: the emitted original records overwrite
\* the stored ones, the returned maps replace the stored ones, the ids of both bitmaps
\* are used.
ApplyOutput(stored, out) ==
    [fields_ids_map |-> out.fields_ids_map,
     primary_key |-> out.primary_key,
     documents |->
         [d \in (DOMAIN stored.documents) \cup StreamIds(out.original_documents) |->
             IF d \in StreamIds(out.original_documents)
             THEN RecordOf(out.original_documents, d)
             ELSE stored.documents[d]],
     documents_ids |->
         stored.documents_ids \cup out.new_documents_ids \cup out.replaced_documents_ids,
     external_documents_ids |-> out.external_documents_ids,
     field_distribution |-> out.field_distribution]

\* output_from_sorter on the sorter of a Transform, and its output stored:
\* [ok, output, store].
FinalizeAndStore(stored, method, sorter) ==
    LET o == output_from_sorter(stored, method, sorter)
    IN  [ok |-> o.err.kind = "", output |-> o.output,
         store |-> IF o.err.kind = "" THEN ApplyOutput(stored, o.output) ELSE stored]

\* A new Transform over the index reads the batch and is finalized, its output stored.
RunOnce(stored, method, autogenerate, batch, uuids) ==
    LET r == read_documents(EmptySorter, stored.fields_ids_map, stored.primary_key,
                            autogenerate, batch, uuids)
        seen == [stored EXCEPT !.fields_ids_map = r.fields_ids_map,
                               !.primary_key = r.primary_key_name]
    IN  IF r.err.kind # "" THEN [ok |-> FALSE, output |-> NoOutput, store |-> stored]
        ELSE FinalizeAndStore(seen, method, r.sorter)

\* What Uuid::new_v4 may return for the records of the last batch.
UuidDraws ==
    [1..Len(last.batch.docs) -> IF autogenerate_docids THEN Uuids ELSE {NoName}]

\* One Transform: one call of read_documents, then output_from_sorter.
NextRun ==
    \/ /\ phase = "Ingesting"
       /\ last.op = ""
       /\ \E n \in 0..MaxRecords : \E jsons \in [1..n -> Docs] : \E order \in Orders :
             \E uuids \in [1..n -> IF autogenerate_docids THEN Uuids ELSE {NoName}] :
                 Ingest(jsons, order, uuids)
    \/ Finalize

RunSpec == Init /\ [][NextRun]_vars

\* The only call of a Transform read the batch last.batch and succeeded.
BatchRead == IngestCall /\ last.sorter = EmptySorter /\ last.err.kind = ""

(***************************************************************************)
(* C16: in Replace mode, applying a batch a second time leaves the index   *)
(* (documents, external ids, used ids, field distribution, fields ids map, *)
(* primary key) as the first application left it.                          *)
(***************************************************************************)
\* The pair of applications: the first is the one of the Transform of the state.
Idempotent(uuids) ==
    LET first == FinalizeAndStore(Stored, index_documents_method, original_sorter)
        second == RunOnce(first.store, index_documents_method, autogenerate_docids,
                          last.batch, uuids)
    IN  first.ok => (second.ok /\ second.store = first.store)

\* The claim as stated.
C16_ReplaceIdempotent ==
    (BatchRead /\ index_documents_method = "ReplaceDocuments") =>
        \A uuids \in UuidDraws : Idempotent(uuids)

(***************************************************************************)
(* C16, amended: in Replace mode, applying a second time a batch whose     *)
(* records all have a value under the primary key leaves the index as the  *)
(* first application left it.  A record without one is given another       *)
(* identifier by each application.                                         *)
(***************************************************************************)
C16_ReplaceIdempotentWithIds ==
    (BatchRead /\ index_documents_method = "ReplaceDocuments" /\ IdLess = {}) =>
        \A uuids \in UuidDraws : Idempotent(uuids)

\* A batch of two records with their ids, one for a document the index holds and one
\* for a new document, applied twice with success.
C16_Witness ==
    /\ BatchRead
    /\ index_documents_method = "ReplaceDocuments"
    /\ IdLess = {}
    /\ Accepted = 2
    /\ LET first == FinalizeAndStore(Stored, index_documents_method, original_sorter)
           second == RunOnce(first.store, index_documents_method, autogenerate_docids,
                             last.batch, [i \in 1..2 |-> IF autogenerate_docids
                                                         THEN << "0", "-", "e" >>
                                                         ELSE NoName])
       IN  /\ first.ok
           /\ first.output.new_documents_ids # {}
           /\ first.output.replaced_documents_ids # {}
           /\ second.ok
           /\ second.output.new_documents_ids = {}
           /\ Cardinality(second.output.replaced_documents_ids) = 2

(***************************************************************************)
(* C17: after a successful Finalize in Update mode, every (field, value)   *)
(* pair of the stored record of a document the batch touched is a pair of  *)
(* the record emitted for it.                                              *)
(***************************************************************************)
\* The claim as stated.
C17_UpdateKeepsPairs ==
    (Finalized /\ index_documents_method = "UpdateDocuments") =>
        \A e \in Hits :
            LET prior == documents[external_documents_ids[e]]
                emitted == RecordOf(output.original_documents, external_documents_ids[e])
            IN  \A fid \in KvKeys(prior) :
                    /\ fid \in KvKeys(emitted)
                    /\ ValueAt(emitted, fid) = ValueAt(prior, fid)

(***************************************************************************)
(* C17, amended: after a successful Finalize in Update mode, every field   *)
(* of the stored record of a document the batch touched is a field of the  *)
(* record emitted for it; it keeps its value when no ingested record gives *)
(* the field, and takes the latest ingested value otherwise.               *)
(***************************************************************************)
C17_UpdateKeepsFields ==
    (Finalized /\ index_documents_method = "UpdateDocuments") =>
        \A e \in Hits :
            LET prior == documents[external_documents_ids[e]]
                emitted == RecordOf(output.original_documents, external_documents_ids[e])
            IN  \A fid \in KvKeys(prior) :
                    /\ fid \in KvKeys(emitted)
                    /\ ValueAt(emitted, fid) =
                           IF fid \in ListKeys(last.sorter[e])
                           THEN LatestValue(last.sorter[e], fid)
                           ELSE ValueAt(prior, fid)

\* Update mode: the emitted record of a touched document keeps a pair of a field no
\* ingested record gives and has another value than the stored one for a field.
C17_Witness ==
    /\ Finalized
    /\ index_documents_method = "UpdateDocuments"
    /\ \E e \in Hits :
           LET prior == documents[external_documents_ids[e]]
               emitted == RecordOf(output.original_documents, external_documents_ids[e])
           IN  /\ \E fid \in KvKeys(prior) \ ListKeys(last.sorter[e]) :
                      ValueAt(emitted, fid) = ValueAt(prior, fid)
               /\ \E fid \in KvKeys(prior) : ValueAt(emitted, fid) # ValueAt(prior, fid)

(***************************************************************************)
(* C18: after a successful Finalize, the number of new_documents_ids plus  *)
(* the number of document ids the index held is at least documents_count,  *)
(* and the two are equal exactly when no document of the index was         *)
(* replaced.                                                               *)
(***************************************************************************)
\* The claim as stated.
C18_CountBoundEqualNoReplacement ==
    Finalized =>
        LET bound == Cardinality(output.new_documents_ids) + Cardinality(documents_ids)
        IN  /\ bound >= output.documents_count
            /\ (bound = output.documents_count) <=> (output.replaced_documents_ids = {})

(***************************************************************************)
(* C18, amended: after a successful Finalize, the number of                *)
(* new_documents_ids plus the number of document ids the index held is at  *)
(* least documents_count, and the two are equal exactly when every         *)
(* document the index held was replaced (so always on an empty index).     *)
(***************************************************************************)
C18_CountBoundEqualAllReplaced ==
    Finalized =>
        LET bound == Cardinality(output.new_documents_ids) + Cardinality(documents_ids)
        IN  /\ bound >= output.documents_count
            /\ (bound = output.documents_count) <=>
                   (output.replaced_documents_ids = documents_ids)
            /\ documents_ids = {} => bound = output.documents_count

\* An index of two documents takes a new document and replaces none: the bound is
\* above the count.
C18_Witness ==
    /\ Finalized
    /\ Cardinality(documents_ids) = 2
    /\ output.replaced_documents_ids = {}
    /\ Cardinality(output.new_documents_ids) = 1
    /\ output.documents_count = 1
    /\ Cardinality(output.new_documents_ids) + Cardinality(documents_ids) = 3

(***************************************************************************)
(* C19: two Transforms over the same index, with the same method and the   *)
(* same autogenerate_docids, that read the same batch and are finalized    *)
(* return the same original and flattened streams, the same bitmaps and    *)
(* the same external ids map, also when records without an id are given a  *)
(* generated one.                                                          *)
(***************************************************************************)
\* The index the Transform of the state was built over.
IndexBefore ==
    [Stored EXCEPT !.fields_ids_map = last.stored.fields_ids_map,
                   !.primary_key = last.stored.primary_key]

\* Another run over the batch of the state: the hash map of the batch index iterates
\* in the given order, Uuid::new_v4 returns the given draws.  It ends as the run of the
\* state does, with the same output.
SameRun(order, uuids) ==
    LET first == FinalizeAndStore(Stored, index_documents_method, original_sorter)
        second == RunOnce(IndexBefore, index_documents_method, autogenerate_docids,
                          [last.batch EXCEPT !.index = Reorder(@, order)], uuids)
    IN  /\ second.ok = first.ok
        /\ first.ok => second.output = first.output

\* The claim as stated.
C19_Deterministic ==
    BatchRead => \A order \in Orders : \A uuids \in UuidDraws : SameRun(order, uuids)

(***************************************************************************)
(* C19, amended: two Transforms over the same index, with the same method  *)
(* and the same autogenerate_docids, that read the same batch and are      *)
(* finalized return the same output (streams, bitmaps, external ids map,   *)
(* fields ids map, field distribution) when every record of the batch has  *)
(* a value under the primary key; a generated identifier is random.        *)
(***************************************************************************)
C19_DeterministicWithIds ==
    (BatchRead /\ IdLess = {}) =>
        \A order \in Orders : \A uuids \in UuidDraws : SameRun(order, uuids)

\* A batch of two records with their ids that brings two names to the fields ids map,
\* one by flattening, and a new document; the run ends well.
C19_Witness ==
    /\ BatchRead
    /\ IdLess = {}
    /\ Accepted = 2
    /\ FimLen(fields_ids_map) >= FimLen(last.stored.fields_ids_map) + 2
    /\ LET first == FinalizeAndStore(Stored, index_documents_method, original_sorter)
       IN  /\ first.ok
           /\ first.output.new_documents_ids # {}
           /\ FimLen(first.output.fields_ids_map) > FimLen(fields_ids_map)

(***************************************************************************)
(* C20: when every read_documents call succeeded, every field id of a      *)
(* record of the sorter has a name in the fields ids map the calls         *)
(* persisted, and after a successful Finalize every field id of a record   *)
(* of the original or of the flattened stream has a name in the            *)
(* fields_ids_map of the TransformOutput.                                  *)
(***************************************************************************)
\* The map gives the field id a name, and that name the field id.
Live(m, fid) == FimName(m, fid) # NoName /\ FimId(m, FimName(m, fid)) = fid

StreamLive(m, stream) ==
    \A i \in 1..Len(stream) : \A fid \in KvKeys(stream[i][2]) : Live(m, fid)

SorterLive(m, sorter) ==
    \A e \in DOMAIN sorter : \A j \in 1..Len(sorter[e]) :
        \A fid \in KvKeys(sorter[e][j]) : Live(m, fid)

C20_NoDanglingFieldIds ==
    /\ (IngestCall /\ last.err.kind = "") =>
           \A e \in DOMAIN original_sorter : \A j \in 1..Len(Appended(e)) :
               \A fid \in KvKeys(Appended(e)[j]) : Live(fields_ids_map, fid)
    /\ (phase = "Ingesting" /\ EveryRecordAccepted) =>
           SorterLive(fields_ids_map, original_sorter)
    /\ (Finalized /\ EveryRecordAccepted) =>
           /\ StreamLive(output.fields_ids_map, output.original_documents)
           /\ StreamLive(output.fields_ids_map, output.flattened_documents)

\* Two records read with success under two external ids; the Finalize after them
\* brings a name to the map by flattening, and emits a field the index already named.
C20_Witness ==
    /\ Finalized
    /\ EveryRecordAccepted
    /\ records_read = 2
    /\ Cardinality(DOMAIN last.sorter) = 2
    /\ \E i \in 1..Len(output.flattened_documents) :
           \E fid \in KvKeys(output.flattened_documents[i][2]) :
               /\ FimName(fields_ids_map, fid) = NoName
               /\ Live(output.fields_ids_map, fid)
    /\ \E i \in 1..Len(output.original_documents) :
           \E fid \in KvKeys(output.original_documents[i][2]) :
               FimId(last.stored.fields_ids_map, FimName(output.fields_ids_map, fid)) # None

(***************************************************************************)
(* Transform::remap_index_documents (Remap).                               *)
(***************************************************************************)
\* A slip in line 590: the value is written under the id the old map gives the name.
RemapRecord_OldIds(old_fields_ids_map, new_fields_ids_map, obkv) ==
    LET n == Len(new_fields_ids_map.names)
        kept == {i \in 1..n :
                    LET oid == FimId(old_fields_ids_map, new_fields_ids_map.names[i])
                    IN  oid # None /\ oid \in KvKeys(obkv)}
        ids == SortedIds(kept)
    IN  [k \in 1..Len(ids) |->
            << FimId(old_fields_ids_map, new_fields_ids_map.names[ids[k]]),
               ValueAt(obkv, FimId(old_fields_ids_map, new_fields_ids_map.names[ids[k]])) >>]

\* Lines 584-594: the names of the new map in ascending id; a name the old map holds
\* and whose old id the record holds is written under its new id.
RemapRecord(old_fields_ids_map, new_fields_ids_map, obkv) ==
    LET n == Len(new_fields_ids_map.names)
        kept == {i \in 1..n :
                    LET oid == FimId(old_fields_ids_map, new_fields_ids_map.names[i])
                    IN  oid # None /\ oid \in KvKeys(obkv)}
        ids == SortedIds(kept)
    IN  [k \in 1..Len(ids) |->
            << new_fields_ids_map.base + ids[k] - 1,
               ValueAt(obkv, FimId(old_fields_ids_map, new_fields_ids_map.names[ids[k]])) >>]

\* remap_index_documents: [err, output].
remap_index_documents(stored, old_fields_ids_map, new_fields_ids_map) ==
    LET docids == SortedIds(DOMAIN stored.documents)
        records == [i \in 1..Len(docids) |->
                       RemapRecord(old_fields_ids_map, new_fields_ids_map,
                                   stored.documents[docids[i]])]
    IN  IF stored.primary_key = NoName
        THEN [err |-> Err("MissingPrimaryKey"), output |-> NoOutput]
        ELSE IF \E i \in 1..Len(records) : ~KvOrdered(records[i])
        THEN [err |-> Err("Io"), output |-> NoOutput]
        ELSE [err |-> NoError,
              output |->
                [primary_key |-> stored.primary_key,
                 fields_ids_map |-> new_fields_ids_map,
                 field_distribution |-> stored.field_distribution,
                 external_documents_ids |-> stored.external_documents_ids,
                 new_documents_ids |-> stored.documents_ids,
                 replaced_documents_ids |-> {},
                 documents_count |-> Cardinality(stored.documents_ids),
                 original_documents |-> [i \in 1..Len(docids) |-> << docids[i], records[i] >>],
                 flattened_documents |-> << >>]]

\* The fields ids maps a caller hands to remap_index_documents as the old one: the
\* map of the index, or that map without its last name.
OldMaps ==
    {fields_ids_map,
     [fields_ids_map EXCEPT !.names = SubSeq(@, 1, IF Len(@) = 0 THEN 0 ELSE Len(@) - 1)]}

\* The fields ids maps a caller hands as the new one: the names in another order, some
\* left out, some added.
NewMaps ==
    {[base |-> b, names |-> names] :
        b \in {0, fields_ids_map.base},
        names \in {<< ID, T, U, A >>, << T, ID >>, << U, T, ID, A, B >>, << >>,
                   << B, U >>, << A, U, T, ID >>}}

\* remap_index_documents consumes the Transform.
Remap(old_fields_ids_map, new_fields_ids_map) ==
    \E r \in {remap_index_documents(Stored, old_fields_ids_map, new_fields_ids_map)} :
        /\ phase = "Ingesting"
        /\ phase' = IF r.err.kind = "" THEN "Remapped" ELSE "Failed"
        /\ output' = r.output
        /\ last' = [op |-> "remap_index_documents", batch |-> NoBatch, stored |-> Persisted,
                    sorter |-> original_sorter, err |-> r.err,
                    primary_key_name |-> NoName, primary_key_id |-> None,
                    fields_ids_map |-> old_fields_ids_map]
        /\ original_sorter' = EmptySorter
        /\ UNCHANGED << fields_ids_map, primary_key, index_vars, index_documents_method,
                        autogenerate_docids, documents_count, records_read >>

\* A Transform: one call of read_documents, then output_from_sorter or
\* remap_index_documents.
NextRemap ==
    \/ NextRun
    \/ \E old_fields_ids_map \in OldMaps : \E new_fields_ids_map \in NewMaps :
           Remap(old_fields_ids_map, new_fields_ids_map)

RemapSpec == Init /\ [][NextRemap]_vars

Remapped == phase = "Remapped"

(***************************************************************************)
(* C21: every record of the sorter, every record of the original and of    *)
(* the flattened stream of a successful Finalize (also one merged with the *)
(* stored record in Update mode), and every record of the stream of a      *)
(* successful Remap lists its field ids in strictly ascending order, so    *)
(* none twice.                                                             *)
(***************************************************************************)
StrictlyAscending(obkv) ==
    \A i, j \in 1..Len(obkv) : i < j => obkv[i][1] < obkv[j][1]

StreamAscending(stream) == \A i \in 1..Len(stream) : StrictlyAscending(stream[i][2])

C21_RecordsAscending ==
    /\ \A e \in DOMAIN original_sorter : \A j \in 1..Len(original_sorter[e]) :
           StrictlyAscending(original_sorter[e][j])
    /\ (Finalized \/ Remapped) =>
           /\ StreamAscending(output.original_documents)
           /\ StreamAscending(output.flattened_documents)

\* A Finalize in Update mode that emits a record merged with the stored one, of three
\* fields, and a flattened record of three fields.
C21_FinalizeWitness ==
    /\ Finalized
    /\ index_documents_method = "UpdateDocuments"
    /\ \E e \in Hits :
           /\ Len(RecordOf(output.original_documents, external_documents_ids[e])) >= 3
           /\ Len(RecordOf(output.flattened_documents, external_documents_ids[e])) >= 3

\* A Remap whose new map reverses the order of the names: a record of three fields
\* whose values changed places.
C21_Witness ==
    /\ Remapped
    /\ \E i \in 1..Len(output.original_documents) :
           LET d == output.original_documents[i][1]
               obkv == output.original_documents[i][2]
           IN  /\ Len(obkv) >= 3
               /\ Len(documents[d]) >= 3
               /\ obkv[1][2] # documents[d][1][2]

(***************************************************************************)
(* C22: after a successful Finalize the original and the flattened stream  *)
(* hold the same internal ids, and the flattened record of an id is the    *)
(* flattening of the record the original stream holds under that id, which *)
(* in Update mode is the stored record merged with the ingested one.       *)
(***************************************************************************)
\* The (name, value) entries of a record, in the order of the record.
Named(m, obkv) == [i \in 1..Len(obkv) |-> << FimName(m, obkv[i][1]), obkv[i][2] >>]

C22_FlattenedOfEmitted ==
    Finalized =>
        /\ StreamIds(output.flattened_documents) = StreamIds(output.original_documents)
        /\ Len(output.flattened_documents) = Len(output.original_documents)
        /\ \A d \in StreamIds(output.original_documents) :
               Named(output.fields_ids_map, RecordOf(output.flattened_documents, d))
                   = flatten(Named(output.fields_ids_map,
                                   RecordOf(output.original_documents, d)))

\* Update mode: the flattened record of a document the index knew holds a field of the
\* stored record that no ingested record gives, and the flattened record of another
\* document holds a field of a nested object.
C22_Witness ==
    /\ Finalized
    /\ index_documents_method = "UpdateDocuments"
    /\ \E e \in Hits :
           \E fid \in KvKeys(documents[external_documents_ids[e]]) :
               /\ fid \notin ListKeys(last.sorter[e])
               /\ fid \in KvKeys(RecordOf(output.flattened_documents,
                                          external_documents_ids[e]))
    /\ \E d \in StreamIds(output.original_documents) :
           KvKeys(RecordOf(output.flattened_documents, d))
               # KvKeys(RecordOf(output.original_documents, d))

(***************************************************************************)
(* C23: a read_documents call that fails (InvalidDocumentId,               *)
(* MissingDocumentId, MissingPrimaryKey, AttributeLimitReached) leaves the *)
(* persisted fields ids map, the persisted primary key, the index and the  *)
(* documents_count of the Transform as they were before the call.          *)
(***************************************************************************)
IngestErrors ==
    {"InvalidDocumentId", "MissingDocumentId", "MissingPrimaryKey", "AttributeLimitReached"}

FailedCallWritesNothing ==
    (last'.op = "read_documents" /\ last'.err.kind # "") =>
        /\ last'.err.kind \in IngestErrors
        /\ fields_ids_map' = fields_ids_map
        /\ primary_key' = primary_key
        /\ documents_count' = documents_count
        /\ UNCHANGED index_vars

C23_FailedIngestPersistsNothing == [][FailedCallWritesNothing]_vars

\* A call that registered names and resolved a primary key, inserted a record and
\* failed on the next one.
C23_Witness ==
    /\ IngestCall
    /\ last.err.kind \in {"InvalidDocumentId", "MissingDocumentId"}
    /\ Accepted = 1
    /\ last.fields_ids_map # fields_ids_map
    /\ last.primary_key_name # primary_key
    /\ fields_ids_map = last.stored.fields_ids_map
    /\ primary_key = last.stored.primary_key
    /\ documents_count = 0

(***************************************************************************)
(* C24: the records a read_documents call inserted before it failed are    *)
(* discarded: an output_from_sorter that follows the failed call does not  *)
(* emit a record under an external id the failed call inserted a record    *)
(* under.                                                                  *)
(***************************************************************************)
\* The external ids under which the last call inserted a record before it failed.
LeftBehind ==
    IF IngestCall /\ last.err.kind # ""
    THEN {e \in DOMAIN original_sorter : Len(Appended(e)) > 0}
    ELSE {}

FailedWorkNotEmitted ==
    phase' = "Done" =>
        \A e \in LeftBehind :
            \/ e \notin DOMAIN output'.external_documents_ids
            \/ output'.external_documents_ids[e] \notin StreamIds(output'.original_documents)

C24_FailedWorkDiscarded == [][FailedWorkNotEmitted]_vars

(***************************************************************************)
(* C25: read_documents may be called again and again until                 *)
(* output_from_sorter, which ends the Transform.  The records of a call    *)
(* join the sorter behind those of the calls before it, and                *)
(* output_from_sorter collapses the records of an external id, whatever    *)
(* calls they came from, in that order (Replace: the latest; Update: each  *)
(* field its latest value, over the stored record if the index knew the    *)
(* id), into one record under one internal id.                             *)
(***************************************************************************)
\* The sorter `later` holds the records of `earlier` in front, key by key.
Extends(later, earlier) ==
    \A e \in DOMAIN earlier :
        /\ e \in DOMAIN later
        /\ Len(later[e]) >= Len(earlier[e])
        /\ SubSeq(later[e], 1, Len(earlier[e])) = earlier[e]

CallsAccumulate ==
    /\ last'.op = "read_documents" => (phase = "Ingesting" /\ Extends(original_sorter', original_sorter))
    /\ phase # "Ingesting" => UNCHANGED vars

CollapsedInCallOrder ==
    Finalized =>
        /\ Len(output.original_documents) = Cardinality(DOMAIN last.sorter)
        /\ \A e1, e2 \in DOMAIN last.sorter :
               e1 # e2 => output.external_documents_ids[e1] # output.external_documents_ids[e2]
        /\ \A e \in DOMAIN last.sorter :
               LET list == last.sorter[e]
                   d == output.external_documents_ids[e]
                   emitted == RecordOf(output.original_documents, d)
                   base == IF e \in Hits THEN KvKeys(documents[d]) ELSE {}
               IN  /\ Cardinality({i \in 1..Len(output.original_documents) :
                                      output.original_documents[i][1] = d}) = 1
                   /\ IF index_documents_method = "ReplaceDocuments"
                      THEN emitted = list[Len(list)]
                      ELSE /\ KvKeys(emitted) = base \cup ListKeys(list)
                           /\ \A fid \in KvKeys(emitted) :
                                  ValueAt(emitted, fid) =
                                      IF fid \in ListKeys(list) THEN LatestValue(list, fid)
                                      ELSE ValueAt(documents[d], fid)

C25_CallsCollapseInOrder == []CollapsedInCallOrder /\ [][CallsAccumulate]_vars

\* A second call inserted, under an external id of the first call, another record;
\* output_from_sorter then emits one record for the id.
C25_Witness ==
    /\ IngestCall
    /\ last.err.kind = ""
    /\ EveryRecordAccepted
    /\ \E e \in DOMAIN last.sorter :
           /\ Len(last.sorter[e]) = 1
           /\ Len(Appended(e)) = 1
           /\ Appended(e)[1] # last.sorter[e][1]
    /\ LET o == output_from_sorter(Stored, index_documents_method, original_sorter)
       IN  /\ o.err.kind = ""
           /\ o.output.documents_count = 1

(***************************************************************************)
(* C26: whatever the index holds and whatever the method and               *)
(* autogenerate_docids are, read_documents on a batch of no document       *)
(* succeeds, and the output_from_sorter of a Transform that read no        *)
(* document succeeds with documents_count 0, empty bitmaps and two empty   *)
(* streams.                                                                *)
(***************************************************************************)
\* The last call read a batch of no document.
EmptyBatchCall == IngestCall /\ Len(last.batch.docs) = 0

\* output_from_sorter ran on a Transform that read no document.
DrainedNothing == phase \in {"Done", "Failed"} /\ records_read = 0

EmptyOutput ==
    /\ phase = "Done"
    /\ output.documents_count = 0
    /\ output.new_documents_ids = {}
    /\ output.replaced_documents_ids = {}
    /\ output.original_documents = << >>
    /\ output.flattened_documents = << >>

\* The claim as stated.
C26_EmptyBatch ==
    /\ EmptyBatchCall => last.err.kind = ""
    /\ DrainedNothing => EmptyOutput

(***************************************************************************)
(* C26, amended: read_documents on a batch of no document succeeds when    *)
(* the index has a primary key or autogenerate_docids is true (the name    *)
(* "id" then becomes the primary key, the map having room for it), and     *)
(* the output_from_sorter that follows succeeds with documents_count 0,    *)
(* empty bitmaps and two empty streams.  When the index has no primary key *)
(* and autogenerate_docids is false the call fails with MissingPrimaryKey, *)
(* and so does output_from_sorter.                                         *)
(***************************************************************************)
C26_EmptyBatchWithPrimaryKey ==
    /\ EmptyBatchCall =>
           IF last.stored.primary_key # NoName
           THEN last.err.kind = "" /\ primary_key = last.stored.primary_key
           ELSE IF autogenerate_docids /\ FimLen(last.stored.fields_ids_map) < FieldIdLimit
           THEN last.err.kind = "" /\ primary_key = DEFAULT_PRIMARY_KEY_NAME
           ELSE ~autogenerate_docids =>
                    last.err.kind = "MissingPrimaryKey" /\ primary_key = NoName
    /\ DrainedNothing =>
           IF primary_key # NoName THEN EmptyOutput
           ELSE phase = "Failed" /\ last.err.kind = "MissingPrimaryKey"

\* An index without primary key, autogenerate_docids true: the calls read nothing,
\* "id" became the primary key, output_from_sorter returned the empty output.
C26_Witness ==
    /\ DrainedNothing
    /\ autogenerate_docids
    /\ documents_ids = {}
    /\ primary_key = DEFAULT_PRIMARY_KEY_NAME
    /\ EmptyOutput
    /\ output.primary_key = DEFAULT_PRIMARY_KEY_NAME

(***************************************************************************)
(* C27: a successful Remap emits one record for every stored document, in  *)
(* ascending internal id and under that id; the record holds, for every    *)
(* field of the stored record whose name by the old map is a name of the   *)
(* new map, the value under the id the new map gives the name, and nothing *)
(* else.  It hands out no internal id, returns the field distribution and  *)
(* the external ids map of the index, and no replaced_documents_ids.       *)
(***************************************************************************)
\* The fields of a stored record that the old map names and the new map holds.
Carried(old, new, obkv) ==
    {fid \in KvKeys(obkv) : FimName(old, fid) # NoName /\ FimId(new, FimName(old, fid)) # None}

C27_RemapProjects ==
    Remapped =>
        LET old == last.fields_ids_map
            new == output.fields_ids_map
        IN  /\ StreamIds(output.original_documents) = DOMAIN documents
            /\ Len(output.original_documents) = Cardinality(DOMAIN documents)
            /\ Ascending(output.original_documents)
            /\ \A d \in DOMAIN documents :
                   LET emitted == RecordOf(output.original_documents, d)
                       carried == Carried(old, new, documents[d])
                   IN  /\ KvKeys(emitted) = {FimId(new, FimName(old, fid)) : fid \in carried}
                       /\ Len(emitted) = Cardinality(carried)
                       /\ \A fid \in carried :
                              ValueAt(emitted, FimId(new, FimName(old, fid)))
                                  = ValueAt(documents[d], fid)
            /\ output.new_documents_ids \cup output.replaced_documents_ids \subseteq documents_ids
            /\ output.documents_count = Cardinality(documents_ids)
            /\ output.field_distribution = field_distribution
            /\ output.external_documents_ids = external_documents_ids
            /\ output.replaced_documents_ids = {}
            /\ output.primary_key = primary_key

\* A Remap that drops a field of a stored record, because the new map lacks its name,
\* and moves another field to another id.
C27_Witness ==
    /\ Remapped
    /\ \E d \in DOMAIN documents :
           LET emitted == RecordOf(output.original_documents, d)
               carried == Carried(last.fields_ids_map, output.fields_ids_map, documents[d])
           IN  /\ KvKeys(documents[d]) \ carried # {}
               /\ \E fid \in carried :
                      FimId(output.fields_ids_map, FimName(last.fields_ids_map, fid)) # fid
               /\ Len(emitted) >= 2

(***************************************************************************)
(* C28: a successful Remap fills the flattened stream: it holds the        *)
(* internal ids of the original stream, and under each the flattening of   *)
(* the record the original stream holds under it, by the names of the new  *)
(* map.                                                                    *)
(***************************************************************************)
C28_RemapFlattens ==
    Remapped =>
        /\ StreamIds(output.flattened_documents) = StreamIds(output.original_documents)
        /\ \A d \in StreamIds(output.original_documents) :
               /\ d \in StreamIds(output.flattened_documents)
               /\ Named(output.fields_ids_map, RecordOf(output.flattened_documents, d))
                      = flatten(Named(output.fields_ids_map,
                                      RecordOf(output.original_documents, d)))

(***************************************************************************)
(* A Transform over an index that uses all the internal ids, or all but    *)
(* one.                                                                    *)
(***************************************************************************)
\* The external id of the document stored under the internal id d.
CrowdedExternalId(d) ==
    IF d = 0 THEN << "a" >> ELSE [i \in 1..d |-> IF i = 1 THEN "c" ELSE "e"]

\* An index that holds a document under every internal id but those of `hole`.
CrowdedIndex(hole) ==
    LET ids == (0..(DocIdSpace - 1)) \ hole
    IN  [fields_ids_map |-> [base |-> 0, names |-> << ID, T, U, A >>], primary_key |-> ID,
         documents |-> [d \in ids |-> << << 0, JString(CrowdedExternalId(d)) >>,
                                         << 1, S("x") >> >>],
         documents_ids |-> ids,
         external_documents_ids |->
             [e \in {CrowdedExternalId(d) : d \in ids} |->
                 CHOOSE d \in ids : CrowdedExternalId(d) = e],
         field_distribution |-> (ID :> Cardinality(ids)) @@ (T :> Cardinality(ids))]

CrowdedIndexes == {CrowdedIndex({}), CrowdedIndex({1})}

\* Transform::new over a crowded index.
CrowdedInit ==
    \E idx \in CrowdedIndexes, method \in Methods, autogen \in BOOLEAN :
        /\ fields_ids_map = idx.fields_ids_map
        /\ primary_key = idx.primary_key
        /\ documents = idx.documents
        /\ documents_ids = idx.documents_ids
        /\ external_documents_ids = idx.external_documents_ids
        /\ field_distribution = idx.field_distribution
        /\ index_documents_method = method
        /\ autogenerate_docids = autogen
        /\ original_sorter = EmptySorter
        /\ documents_count = 0
        /\ phase = "Ingesting"
        /\ records_read = 0
        /\ last = NoCall
        /\ output = NoOutput

CrowdedSpec == CrowdedInit /\ [][NextRun]_vars

(***************************************************************************)
(* C29: an output_from_sorter that has more external ids to give a new     *)
(* internal id than the index leaves unused fails with                     *)
(* DocumentLimitReached, which is not AttributeLimitReached, and returns   *)
(* no TransformOutput; one that succeeds gave no id the index uses and no  *)
(* id twice.                                                               *)
(***************************************************************************)
Drained == last.op = "output_from_sorter"

FreeIds == (0..(DocIdSpace - 1)) \ documents_ids

OutOfIds == Drained /\ Cardinality(Misses) > Cardinality(FreeIds)

C29_DocumentLimitReached ==
    /\ OutOfIds =>
           /\ phase = "Failed"
           /\ output = NoOutput
           /\ EveryRecordAccepted =>
                  /\ last.err.kind = "DocumentLimitReached"
                  /\ last.err.kind # "AttributeLimitReached"
    /\ (Drained /\ last.err.kind = "DocumentLimitReached") => OutOfIds
    /\ Finalized =>
           /\ output.new_documents_ids \cap documents_ids = {}
           /\ output.new_documents_ids \subseteq 0..(DocIdSpace - 1)
           /\ Cardinality(output.new_documents_ids) = Cardinality(Misses)
           /\ \A e \in Hits : output.external_documents_ids[e] = external_documents_ids[e]

\* An index with one unused id and two new external ids to drain: the first takes the
\* id, the second finds none.
C29_Witness ==
    /\ OutOfIds
    /\ Cardinality(FreeIds) = 1
    /\ Cardinality(Misses) = 2
    /\ EveryRecordAccepted
    /\ last.err.kind = "DocumentLimitReached"
    /\ output = NoOutput

(***************************************************************************)
(* C30: the flattened fields of a record are put in ascending field id     *)
(* before they are written, so output_from_sorter does not fail on a       *)
(* record whose flattening registers a name (say "a.b") under an id above  *)
(* that of a field that comes later in the record: the writer never        *)
(* refuses a flattened record.                                             *)
(***************************************************************************)
C30_FlattenedWriterAccepts ==
    (Drained /\ EveryRecordAccepted) => last.err.kind # "Io"

(***************************************************************************)
(* C31: create_fields_mapping gives a field of the batch whose name the    *)
(* fields ids map holds the id of that name, and gives the names the map   *)
(* does not hold new ids in ascending batch-local id, whatever order the   *)
(* batch index iterates in.  The persisted map only grows: no call removes *)
(* or renumbers a name, and no name has two ids.                           *)
(***************************************************************************)
\* The map `later` holds every (id, name) pair of the map `earlier`.
Grows(later, earlier) ==
    /\ later.base = earlier.base
    /\ Len(later.names) >= Len(earlier.names)
    /\ SubSeq(later.names, 1, Len(earlier.names)) = earlier.names

\* No name has two ids, and every id is a FieldId.
Bijective(m) ==
    /\ \A i, j \in 1..Len(m.names) : i # j => m.names[i] # m.names[j]
    /\ FimLen(m) <= FieldIdLimit

\* create_fields_mapping on the map and the batch index of the last call, the batch
\* index iterating in the given order; it fits what the call went on with.
MappingInLocalOrder(order) ==
    LET before == last.stored.fields_ids_map
        index == last.batch.index
        r == create_fields_mapping(before, Reorder(index, order))
        unseen == {i \in 1..Len(index) : FimId(before, index[i][2]) = None}
    IN  r.err.kind = "" =>
            /\ DOMAIN r.mapping = {index[i][1] : i \in 1..Len(index)}
            /\ \A i \in 1..Len(index) :
                   /\ FimName(r.map, r.mapping[index[i][1]]) = index[i][2]
                   /\ IF i \in unseen
                      THEN r.mapping[index[i][1]] >= FimLen(before)
                      ELSE r.mapping[index[i][1]] = FimId(before, index[i][2])
            /\ \A i, j \in unseen :
                   index[i][1] < index[j][1] => r.mapping[index[i][1]] < r.mapping[index[j][1]]
            /\ Grows(r.map, before)
            /\ Bijective(r.map)
            /\ FimLen(r.map) = FimLen(before) + Cardinality(unseen)
            /\ Resolved => Grows(last.fields_ids_map, r.map)

C31_MappingAndGrowth ==
    /\ IngestCall => \A order \in Orders : MappingInLocalOrder(order)
    /\ Grows(fields_ids_map, last.stored.fields_ids_map) \/ last.op = ""
    /\ Bijective(fields_ids_map)

\* A call whose batch has a name the map held and two names it did not hold, which
\* the call persisted behind the names of the map.
C31_Witness ==
    /\ IngestCall
    /\ last.err.kind = ""
    /\ Cardinality(BatchNewNames) = 2
    /\ Len(last.stored.fields_ids_map.names) >= 1
    /\ \E i \in 1..Len(last.batch.index) :
           FimId(last.stored.fields_ids_map, last.batch.index[i][2]) # None
    /\ FimLen(fields_ids_map) = FimLen(last.stored.fields_ids_map) + 2

(***************************************************************************)
(* C32: output_from_sorter, whether it succeeds or fails, leaves the       *)
(* index as it found it: documents, fields ids map, primary key, external  *)
(* ids map, field distribution and used ids; what it computed, the field   *)
(* ids registered while flattening included, is in the TransformOutput     *)
(* only.  So does remap_index_documents.  read_documents writes the fields *)
(* ids map and the primary key and nothing else.                           *)
(***************************************************************************)
OnlyIngestWrites ==
    /\ UNCHANGED index_vars
    /\ last'.op # "read_documents" => UNCHANGED << fields_ids_map, primary_key >>

C32_FinalizeWritesNothing == [][OnlyIngestWrites]_vars

\* A successful output_from_sorter whose output has a fields ids map with a name more,
\* another external ids map and another field distribution than the index, which has
\* the map the read_documents call left.
C32_Witness ==
    /\ Finalized
    /\ FimLen(output.fields_ids_map) > FimLen(fields_ids_map)
    /\ output.external_documents_ids # external_documents_ids
    /\ output.field_distribution # field_distribution
    /\ output.new_documents_ids # {}
    /\ fields_ids_map = last.stored.fields_ids_map
    /\ primary_key = last.stored.primary_key

(***************************************************************************)
(* A Transform over an index whose external ids map, used ids and          *)
(* documents may disagree.                                                 *)
(***************************************************************************)
\* The stored record of the external id e.
StoredRecord(e) == << << 0, S(e) >>, << 1, S("x") >> >>

\* Two external ids under one internal id.
SharedIdIndex ==
    [fields_ids_map |-> [base |-> 0, names |-> << ID, T, U, A >>], primary_key |-> ID,
     documents |-> (0 :> StoredRecord("a")),
     documents_ids |-> {0},
     external_documents_ids |-> (<< "a" >> :> 0) @@ (<< "b" >> :> 0),
     field_distribution |-> (ID :> 1) @@ (T :> 1)]

\* An external id under an internal id that is not among the used ids.
UnusedIdIndex ==
    [fields_ids_map |-> [base |-> 0, names |-> << ID, T, U, A >>], primary_key |-> ID,
     documents |-> (0 :> StoredRecord("c")) @@ (1 :> StoredRecord("a")),
     documents_ids |-> {0},
     external_documents_ids |-> (<< "c" >> :> 0) @@ (<< "a" >> :> 1),
     field_distribution |-> (ID :> 2) @@ (T :> 2)]

\* An external id under an internal id that has no stored record.
NoRecordIndex ==
    [fields_ids_map |-> [base |-> 0, names |-> << ID, T, U, A >>], primary_key |-> ID,
     documents |-> (0 :> StoredRecord("c")),
     documents_ids |-> {0, 1},
     external_documents_ids |-> (<< "c" >> :> 0) @@ (<< "a" >> :> 1),
     field_distribution |-> (ID :> 1) @@ (T :> 1)]

AnyIndexes == {SharedIdIndex, UnusedIdIndex, NoRecordIndex, StockedIndex(0), EmptyIndex(0)}

\* Transform::new over any of these indexes.
AnyInit ==
    \E idx \in AnyIndexes, method \in Methods, autogen \in BOOLEAN :
        /\ fields_ids_map = idx.fields_ids_map
        /\ primary_key = idx.primary_key
        /\ documents = idx.documents
        /\ documents_ids = idx.documents_ids
        /\ external_documents_ids = idx.external_documents_ids
        /\ field_distribution = idx.field_distribution
        /\ index_documents_method = method
        /\ autogenerate_docids = autogen
        /\ original_sorter = EmptySorter
        /\ documents_count = 0
        /\ phase = "Ingesting"
        /\ records_read = 0
        /\ last = NoCall
        /\ output = NoOutput

AnySpec == AnyInit /\ [][Next]_vars

(***************************************************************************)
(* C33: over an index whose external ids map is injective and maps only to *)
(* used ids that have a stored record, output_from_sorter, whatever calls  *)
(* of read_documents came before, fails neither with IndexingMergingKeys   *)
(* nor with DatabaseMissingEntry, and emits no two external ids under one  *)
(* internal id.                                                            *)
(***************************************************************************)
ConsistentIndex ==
    /\ Injective(external_documents_ids)
    /\ \A e \in DOMAIN external_documents_ids :
           /\ external_documents_ids[e] \in documents_ids
           /\ external_documents_ids[e] \in DOMAIN documents

C33_NoDuplicateInternalId ==
    ConsistentIndex =>
        /\ Drained => last.err.kind \notin {"IndexingMergingKeys", "DatabaseMissingEntry"}
        /\ Finalized =>
               /\ \A e1, e2 \in DOMAIN last.sorter :
                      e1 # e2 =>
                          output.external_documents_ids[e1] # output.external_documents_ids[e2]
               /\ Injective(output.external_documents_ids)
               /\ Cardinality(StreamIds(output.original_documents))
                      = Len(output.original_documents)
               /\ Cardinality(StreamIds(output.flattened_documents))
                      = Len(output.flattened_documents)

\* A consistent index that holds documents: an external id it knows and one it does
\* not know are emitted, under two internal ids.
C33_Witness ==
    /\ ConsistentIndex
    /\ Finalized
    /\ Hits # {}
    /\ Misses # {}
    /\ documents_ids # {}
    /\ Len(output.original_documents) = 2

\* Over an index that is not consistent the two errors do occur.
C33_MergingKeysOccurs ==
    ~ConsistentIndex /\ Drained /\ last.err.kind = "IndexingMergingKeys"

C33_MissingEntryOccurs ==
    ~ConsistentIndex /\ Drained /\ last.err.kind = "DatabaseMissingEntry"

====
